---------------------------- MODULE Spec2Model ----------------------------
(***************************************************************************)
(* Risk Gate (RiskManager) and Backtest Portfolio (BacktestEngine) of the  *)
(* trading application, as state machines.                                 *)
(*                                                                         *)
(* Money is in whole dollars.  A timestamp is an integer number of slots   *)
(* since an epoch, SlotsPerDay slots to a calendar day, so that two        *)
(* timestamps can share a calendar date, and can be on different dates     *)
(* less than a whole day apart.  A percentage that the code computes by a  *)
(* division is kept as an exact fraction <<numerator, denominator>>.       *)
(***************************************************************************)
EXTENDS Integers, Sequences, FiniteSets, TLC

VARIABLES
    rm,        \* the RiskManager object's fields
    rm_call,   \* the last RiskManager call: its arguments and its outcome
    rm_obs,    \* history of what the RiskManager was shown (for the claims)
    bt,        \* the BacktestEngine object's fields
    bt_call,   \* the last BacktestEngine call: its arguments and its outcome
    bt_obs,    \* history of what the BacktestEngine was shown (for the claims)
    st,        \* the TradingStrategy object's fields
    st_call    \* the last call of a pure function: its arguments and its outcome

rm_vars == <<rm, rm_call, rm_obs>>
bt_vars == <<bt, bt_call, bt_obs>>
st_vars == <<st, st_call>>
vars == <<rm, rm_call, rm_obs, bt, bt_call, bt_obs, st, st_call>>

---------------------------------------------------------------------------
(* Bounds of the model *)

SlotsPerDay == 2
MaxEarly    == 1    \* the clock specification's calls are at slots 0..MaxEarly
MaxLate     == 2    \* and at the MaxLate + 1 slots from half a day short of a week
MaxGateDay  == 1    \* the gate specification's calls are on days 0..MaxGateDay
MaxAbsPnl   == 300  \* update_pnl is not called once a tracker would pass this
MaxClockPnl == 125  \* the same cap in the clock specification
MaxTrades   == 1    \* no position is closed once the trade list is this long
MaxPoints   == 1    \* record_equity is not called once the equity curve is this long

---------------------------------------------------------------------------
(* RiskLimits defaults *)

max_position_size == 1000
position_size_pct == 20
max_positions     == 5
daily_loss_limit  == 100
weekly_loss_limit == 300
max_drawdown_pct  == 15
WeekDays          == 7

---------------------------------------------------------------------------
(* Values *)

None == "None"          \* Python's None where a string is expected
NoTime == <<>>          \* Python's None where a datetime is expected
Some(t) == <<t>>
TheTime(o) == o[1]

Abs(x) == IF x < 0 THEN -x ELSE x

RECURSIVE GCD(_, _)
GCD(a, b) == IF b = 0 THEN a ELSE GCD(b, a % b)

\* the fraction n/d (d # 0) in lowest terms, the denominator positive
Frac(n, d) ==
    LET g == GCD(Abs(n), Abs(d))
    IN  IF d < 0 THEN <<(-n) \div g, (-d) \div g>> ELSE <<n \div g, d \div g>>

\* the percentage n/d*100 as a fraction
Pct(n, d) ==
    LET f == Frac(n, d) IN Frac(f[1] * 100, f[2])

FracZero == <<0, 1>>
\* n/d >= k, n/d < k for an integer k
FracGe(f, k) == f[1] >= k * f[2]
FracLt(f, k) == f[1] < k * f[2]

\* datetime.date(): the calendar date of a timestamp
DateOf(t) == t \div SlotsPerDay
\* timedelta.days of (a - b): whole days, rounded down
DaysBetween(a, b) == (a - b) \div SlotsPerDay

---------------------------------------------------------------------------
(* RiskManager *)

RiskManagerInit ==
    [ daily_pnl            |-> 0,
      weekly_pnl           |-> 0,
      current_date         |-> NoTime,
      week_start_date      |-> NoTime,
      peak_equity          |-> 0,
      current_drawdown_pct |-> FracZero,
      trading_halted       |-> FALSE,
      halt_reason          |-> None ]

reset_daily_pnl_by_timestamp(s, current_date) ==
    IF s.current_date = NoTime \/ current_date # TheTime(s.current_date)
    THEN [s EXCEPT !.daily_pnl = 0, !.current_date = Some(current_date)]
    ELSE s

reset_daily_pnl_auto_resume(s, current_date) ==
    IF s.current_date = NoTime \/ DateOf(current_date) # DateOf(TheTime(s.current_date))
    THEN [s EXCEPT !.daily_pnl = 0, !.current_date = Some(current_date),
                   !.trading_halted = FALSE, !.halt_reason = None]
    ELSE s

reset_daily_pnl(s, current_date) ==
    IF s.current_date = NoTime \/ DateOf(current_date) # DateOf(TheTime(s.current_date))
    THEN [s EXCEPT !.daily_pnl = 0, !.current_date = Some(current_date)]
    ELSE s

reset_weekly_pnl_late(s, current_date) ==
    IF s.week_start_date = NoTime
    THEN [s EXCEPT !.week_start_date = Some(current_date)]
    ELSE IF DaysBetween(current_date, TheTime(s.week_start_date)) > WeekDays
         THEN [s EXCEPT !.weekly_pnl = 0, !.week_start_date = Some(current_date)]
         ELSE s

reset_weekly_pnl(s, current_date) ==
    IF s.week_start_date = NoTime
    THEN [s EXCEPT !.week_start_date = Some(current_date)]
    ELSE IF DaysBetween(current_date, TheTime(s.week_start_date)) >= WeekDays
         THEN [s EXCEPT !.weekly_pnl = 0, !.week_start_date = Some(current_date)]
         ELSE s

update_pnl(s, pnl, timestamp) ==
    LET s1 == reset_daily_pnl(s, timestamp)
        s2 == reset_weekly_pnl(s1, timestamp)
    IN  [s2 EXCEPT !.daily_pnl = @ + pnl, !.weekly_pnl = @ + pnl]

\* the division by peak_equity in the else branch, when peak_equity is 0.0
update_drawdown_raises(s, current_equity) ==
    ~(current_equity > s.peak_equity) /\ s.peak_equity = 0

update_drawdown_keeps_peak(s, current_equity) ==
    IF current_equity > s.peak_equity
    THEN [s EXCEPT !.current_drawdown_pct = FracZero]
    ELSE [s EXCEPT !.current_drawdown_pct =
              Pct(s.peak_equity - current_equity, s.peak_equity)]

update_drawdown(s, current_equity) ==
    IF current_equity > s.peak_equity
    THEN [s EXCEPT !.peak_equity = current_equity,
                   !.current_drawdown_pct = FracZero]
    ELSE [s EXCEPT !.current_drawdown_pct =
              Pct(s.peak_equity - current_equity, s.peak_equity)]

check_daily_loss_limit_strict(s) == Abs(s.daily_pnl) > daily_loss_limit

check_daily_loss_limit(s) == Abs(s.daily_pnl) >= daily_loss_limit

check_weekly_loss_limit(s) == Abs(s.weekly_pnl) >= weekly_loss_limit

check_drawdown_limit(s) == FracGe(s.current_drawdown_pct, max_drawdown_pct)

\* validate_trade passes no sector_positions
check_position_limits(current_positions) == current_positions >= max_positions

halt_trading(s, reason) ==
    [s EXCEPT !.trading_halted = TRUE, !.halt_reason = reason]

resume_trading_new_day(s) ==
    [s EXCEPT !.trading_halted = FALSE, !.halt_reason = None, !.daily_pnl = 0]

resume_trading(s) ==
    [s EXCEPT !.trading_halted = FALSE, !.halt_reason = None]

\* the f-strings of validate_trade
HaltedText(s) == "Trading halted: " \o s.halt_reason
DailyText == "Daily loss limit exceeded"
WeeklyText == "Weekly loss limit exceeded - review required"
DrawdownText == "Max drawdown exceeded"
PositionsText == "Position limits exceeded"
CapitalText == "Insufficient capital"
SizeText(position_value) ==
    "Position size $" \o ToString(position_value) \o ".00 exceeds limit $"
        \o ToString(max_position_size) \o ".0"

Returned(s, ok, reason) ==
    [state |-> s, raised |-> None, ret |-> <<ok, reason>>]
Raised(s, exc) ==
    [state |-> s, raised |-> exc, ret |-> <<>>]

\* the checks that follow the tracker updates, on the updated state s
risk_checks_weekly_last(s, price, quantity, account_equity, current_positions) ==
    LET position_value == price * quantity IN
    IF check_daily_loss_limit(s)
    THEN Returned(halt_trading(s, DailyText), FALSE, DailyText)
    ELSE IF check_drawdown_limit(s)
    THEN Returned(halt_trading(s, DrawdownText), FALSE, DrawdownText)
    ELSE IF check_weekly_loss_limit(s)
    THEN Returned(s, FALSE, WeeklyText)
    ELSE IF check_position_limits(current_positions)
    THEN Returned(s, FALSE, PositionsText)
    ELSE IF position_value > max_position_size
    THEN Returned(s, FALSE, SizeText(position_value))
    ELSE IF position_value > account_equity
    THEN Returned(s, FALSE, CapitalText)
    ELSE Returned(s, TRUE, None)

risk_checks_weekly_halts(s, price, quantity, account_equity, current_positions) ==
    LET position_value == price * quantity IN
    IF check_daily_loss_limit(s)
    THEN Returned(halt_trading(s, DailyText), FALSE, DailyText)
    ELSE IF check_weekly_loss_limit(s)
    THEN Returned(halt_trading(s, WeeklyText), FALSE, WeeklyText)
    ELSE IF check_drawdown_limit(s)
    THEN Returned(halt_trading(s, DrawdownText), FALSE, DrawdownText)
    ELSE IF check_position_limits(current_positions)
    THEN Returned(s, FALSE, PositionsText)
    ELSE IF position_value > max_position_size
    THEN Returned(s, FALSE, SizeText(position_value))
    ELSE IF position_value > account_equity
    THEN Returned(s, FALSE, CapitalText)
    ELSE Returned(s, TRUE, None)

risk_checks_no_size_check(s, price, quantity, account_equity, current_positions) ==
    LET position_value == price * quantity IN
    IF check_daily_loss_limit(s)
    THEN Returned(halt_trading(s, DailyText), FALSE, DailyText)
    ELSE IF check_weekly_loss_limit(s)
    THEN Returned(s, FALSE, WeeklyText)
    ELSE IF check_drawdown_limit(s)
    THEN Returned(halt_trading(s, DrawdownText), FALSE, DrawdownText)
    ELSE IF check_position_limits(current_positions)
    THEN Returned(s, FALSE, PositionsText)
    ELSE IF position_value > account_equity
    THEN Returned(s, FALSE, CapitalText)
    ELSE Returned(s, TRUE, None)

risk_checks(s, price, quantity, account_equity, current_positions) ==
    LET position_value == price * quantity IN
    IF check_daily_loss_limit(s)
    THEN Returned(halt_trading(s, DailyText), FALSE, DailyText)
    ELSE IF check_weekly_loss_limit(s)
    THEN Returned(s, FALSE, WeeklyText)
    ELSE IF check_drawdown_limit(s)
    THEN Returned(halt_trading(s, DrawdownText), FALSE, DrawdownText)
    ELSE IF check_position_limits(current_positions)
    THEN Returned(s, FALSE, PositionsText)
    ELSE IF position_value > max_position_size
    THEN Returned(s, FALSE, SizeText(position_value))
    ELSE IF position_value > account_equity
    THEN Returned(s, FALSE, CapitalText)
    ELSE Returned(s, TRUE, None)

validate_trade(s, ticker, price, quantity, account_equity, current_positions, timestamp) ==
    IF s.trading_halted
    THEN Returned(s, FALSE, HaltedText(s))
    ELSE LET s1 == reset_daily_pnl(s, timestamp)
             s2 == reset_weekly_pnl(s1, timestamp)
         IN  IF update_drawdown_raises(s2, account_equity)
             THEN Raised(s2, "ZeroDivisionError")
             ELSE risk_checks(update_drawdown(s2, account_equity),
                              price, quantity, account_equity, current_positions)

---------------------------------------------------------------------------
(* BacktestEngine.  Its money is in units of 1/UnitsPerDollar dollar, so  *)
(* that the default slippage of 0.05% of a whole-dollar price is a whole  *)
(* number of units.                                                       *)

UnitsPerDollar == 2000
Dollars(d) == d * UnitsPerDollar

\* BacktestConfig with its defaults, but for the starting capital
BacktestConfig(capital) ==
    [ starting_capital     |-> capital,
      max_positions        |-> 5,
      max_position_size    |-> Dollars(1000),
      commission_per_trade |-> 0,
      slippage_pct         |-> <<1, 20>>,     \* 0.05
      daily_loss_limit     |-> Dollars(100),
      max_drawdown_pct     |-> 15 ]

NoPositions == [ticker \in {} |-> {}]

BacktestEngineInit(config) ==
    [ config           |-> config,
      capital          |-> config.starting_capital,
      starting_capital |-> config.starting_capital,
      positions        |-> NoPositions,
      trades           |-> <<>>,
      equity_curve     |-> <<>>,
      daily_pnl        |-> 0,
      peak_equity      |-> config.starting_capital,
      current_drawdown |-> FracZero,
      total_trades     |-> 0,
      winning_trades   |-> 0,
      losing_trades    |-> 0 ]

Max(a, b) == IF a >= b THEN a ELSE b

\* price * (slippage_pct / 100)
SlippageOf(config, price) ==
    (price * config.slippage_pct[1]) \div (config.slippage_pct[2] * 100)

\* Position(...) with __post_init__: a highest_price of 0.0 becomes the entry price
Position(ticker, entry_time, entry_price, quantity, stop_loss, take_profit) ==
    [ ticker        |-> ticker,
      entry_time    |-> entry_time,
      entry_price   |-> entry_price,
      quantity      |-> quantity,
      stop_loss     |-> stop_loss,
      take_profit   |-> take_profit,
      highest_price |-> entry_price ]

update_highest_price_last(position, current_price) ==
    [position EXCEPT !.highest_price = current_price]

update_highest_price(position, current_price) ==
    [position EXCEPT !.highest_price = Max(@, current_price)]

can_open_position_any_count(b) ==
    /\ ~(b.capital < b.config.max_position_size)
    /\ ~(Abs(b.daily_pnl) >= b.config.daily_loss_limit)
    /\ ~FracGe(b.current_drawdown, b.config.max_drawdown_pct)

can_open_position_counts_losses_only(b) ==
    /\ ~(Cardinality(DOMAIN b.positions) >= b.config.max_positions)
    /\ ~(b.capital < b.config.max_position_size)
    /\ ~(-b.daily_pnl >= b.config.daily_loss_limit)
    /\ ~FracGe(b.current_drawdown, b.config.max_drawdown_pct)

can_open_position(b) ==
    /\ ~(Cardinality(DOMAIN b.positions) >= b.config.max_positions)
    /\ ~(b.capital < b.config.max_position_size)
    /\ ~(Abs(b.daily_pnl) >= b.config.daily_loss_limit)
    /\ ~FracGe(b.current_drawdown, b.config.max_drawdown_pct)

Result(s, value) == [state |-> s, raised |-> None, ret |-> <<value>>]

open_position_replaces(b, ticker, timestamp, price, quantity, stop_loss, take_profit) ==
    IF ~can_open_position(b)
    THEN Result(b, FALSE)
    ELSE LET slippage == SlippageOf(b.config, price)
             actual_entry_price == price + slippage
             position_cost == actual_entry_price * quantity
             total_cost == position_cost + b.config.commission_per_trade
             position == Position(ticker, timestamp, actual_entry_price, quantity,
                                  stop_loss, take_profit)
         IN  IF total_cost > b.capital
             THEN Result(b, FALSE)
             ELSE Result([b EXCEPT !.capital = @ - total_cost,
                                   !.positions = [k \in DOMAIN @ \cup {ticker} |->
                                                     IF k = ticker THEN position ELSE @[k]]],
                         TRUE)

open_position_keeps_fee(b, ticker, timestamp, price, quantity, stop_loss, take_profit) ==
    IF ticker \in DOMAIN b.positions
    THEN Result(b, FALSE)
    ELSE IF ~can_open_position(b)
    THEN Result(b, FALSE)
    ELSE LET slippage == SlippageOf(b.config, price)
             actual_entry_price == price + slippage
             position_cost == actual_entry_price * quantity
             total_cost == position_cost + b.config.commission_per_trade
             position == Position(ticker, timestamp, actual_entry_price, quantity,
                                  stop_loss, take_profit)
         IN  IF total_cost > b.capital
             THEN Result([b EXCEPT !.capital = @ - b.config.commission_per_trade], FALSE)
             ELSE Result([b EXCEPT !.capital = @ - total_cost,
                                   !.positions = [k \in DOMAIN @ \cup {ticker} |->
                                                     IF k = ticker THEN position ELSE @[k]]],
                         TRUE)

open_position_forgets_commission(b, ticker, timestamp, price, quantity, stop_loss, take_profit) ==
    IF ticker \in DOMAIN b.positions
    THEN Result(b, FALSE)
    ELSE IF ~can_open_position(b)
    THEN Result(b, FALSE)
    ELSE LET slippage == SlippageOf(b.config, price)
             actual_entry_price == price + slippage
             position_cost == actual_entry_price * quantity
             total_cost == position_cost + b.config.commission_per_trade
             position == Position(ticker, timestamp, actual_entry_price, quantity,
                                  stop_loss, take_profit)
         IN  IF total_cost > b.capital
             THEN Result(b, FALSE)
             ELSE Result([b EXCEPT !.capital = @ - position_cost,
                                   !.positions = [k \in DOMAIN @ \cup {ticker} |->
                                                     IF k = ticker THEN position ELSE @[k]]],
                         TRUE)

open_position(b, ticker, timestamp, price, quantity, stop_loss, take_profit) ==
    IF ticker \in DOMAIN b.positions
    THEN Result(b, FALSE)
    ELSE IF ~can_open_position(b)
    THEN Result(b, FALSE)
    ELSE LET slippage == SlippageOf(b.config, price)
             actual_entry_price == price + slippage
             position_cost == actual_entry_price * quantity
             total_cost == position_cost + b.config.commission_per_trade
             position == Position(ticker, timestamp, actual_entry_price, quantity,
                                  stop_loss, take_profit)
         IN  IF total_cost > b.capital
             THEN Result(b, FALSE)
             ELSE Result([b EXCEPT !.capital = @ - total_cost,
                                   !.positions = [k \in DOMAIN @ \cup {ticker} |->
                                                     IF k = ticker THEN position ELSE @[k]]],
                         TRUE)

\* the division by position.entry_price in pnl_pct
close_position_raises(b, ticker) ==
    ticker \in DOMAIN b.positions /\ b.positions[ticker].entry_price = 0

close_position_pays_twice(b, ticker, timestamp, price, reason) ==
    IF ticker \notin DOMAIN b.positions
    THEN Result(b, None)
    ELSE LET position == b.positions[ticker]
             slippage == SlippageOf(b.config, price)
             actual_exit_price == price - slippage
             gross_pnl == (actual_exit_price - position.entry_price) * position.quantity
             net_pnl == gross_pnl - b.config.commission_per_trade
             pnl_pct == Pct(actual_exit_price - position.entry_price, position.entry_price)
             proceeds == actual_exit_price * position.quantity
             trade == [ ticker      |-> ticker,
                        entry_time  |-> position.entry_time,
                        exit_time   |-> timestamp,
                        entry_price |-> position.entry_price,
                        exit_price  |-> actual_exit_price,
                        quantity    |-> position.quantity,
                        pnl         |-> net_pnl,
                        pnl_pct     |-> pnl_pct,
                        exit_reason |-> reason,
                        commission  |-> b.config.commission_per_trade * 2,
                        slippage    |-> slippage * position.quantity * 2 ]
         IN  Result([b EXCEPT !.capital = @ + proceeds - b.config.commission_per_trade * 2,
                              !.trades = Append(@, trade),
                              !.total_trades = @ + 1,
                              !.daily_pnl = @ + net_pnl,
                              !.winning_trades = IF net_pnl > 0 THEN @ + 1 ELSE @,
                              !.losing_trades = IF net_pnl > 0 THEN @ ELSE @ + 1,
                              !.positions = [k \in DOMAIN @ \ {ticker} |-> @[k]]],
                    trade)

close_position_counts_miss(b, ticker, timestamp, price, reason) ==
    IF ticker \notin DOMAIN b.positions
    THEN Result([b EXCEPT !.losing_trades = 1], None)
    ELSE LET position == b.positions[ticker]
             slippage == SlippageOf(b.config, price)
             actual_exit_price == price - slippage
             gross_pnl == (actual_exit_price - position.entry_price) * position.quantity
             net_pnl == gross_pnl - b.config.commission_per_trade
             pnl_pct == Pct(actual_exit_price - position.entry_price, position.entry_price)
             proceeds == actual_exit_price * position.quantity
             trade == [ ticker      |-> ticker,
                        entry_time  |-> position.entry_time,
                        exit_time   |-> timestamp,
                        entry_price |-> position.entry_price,
                        exit_price  |-> actual_exit_price,
                        quantity    |-> position.quantity,
                        pnl         |-> net_pnl,
                        pnl_pct     |-> pnl_pct,
                        exit_reason |-> reason,
                        commission  |-> b.config.commission_per_trade * 2,
                        slippage    |-> slippage * position.quantity * 2 ]
         IN  Result([b EXCEPT !.capital = @ + proceeds - b.config.commission_per_trade,
                              !.trades = Append(@, trade),
                              !.total_trades = @ + 1,
                              !.daily_pnl = @ + net_pnl,
                              !.winning_trades = IF net_pnl > 0 THEN @ + 1 ELSE @,
                              !.losing_trades = IF net_pnl > 0 THEN @ ELSE @ + 1,
                              !.positions = [k \in DOMAIN @ \ {ticker} |-> @[k]]],
                    trade)

close_position_keeps_position(b, ticker, timestamp, price, reason) ==
    IF ticker \notin DOMAIN b.positions
    THEN Result(b, None)
    ELSE LET position == b.positions[ticker]
             slippage == SlippageOf(b.config, price)
             actual_exit_price == price - slippage
             gross_pnl == (actual_exit_price - position.entry_price) * position.quantity
             net_pnl == gross_pnl - b.config.commission_per_trade
             pnl_pct == Pct(actual_exit_price - position.entry_price, position.entry_price)
             proceeds == actual_exit_price * position.quantity
             trade == [ ticker      |-> ticker,
                        entry_time  |-> position.entry_time,
                        exit_time   |-> timestamp,
                        entry_price |-> position.entry_price,
                        exit_price  |-> actual_exit_price,
                        quantity    |-> position.quantity,
                        pnl         |-> net_pnl,
                        pnl_pct     |-> pnl_pct,
                        exit_reason |-> reason,
                        commission  |-> b.config.commission_per_trade * 2,
                        slippage    |-> slippage * position.quantity * 2 ]
         IN  Result([b EXCEPT !.capital = @ + proceeds - b.config.commission_per_trade,
                              !.trades = Append(@, trade),
                              !.total_trades = @ + 1,
                              !.daily_pnl = @ + net_pnl,
                              !.winning_trades = IF net_pnl > 0 THEN @ + 1 ELSE @,
                              !.losing_trades = IF net_pnl > 0 THEN @ ELSE @ + 1],
                    trade)

close_position_zero_is_win(b, ticker, timestamp, price, reason) ==
    IF ticker \notin DOMAIN b.positions
    THEN Result(b, None)
    ELSE LET position == b.positions[ticker]
             slippage == SlippageOf(b.config, price)
             actual_exit_price == price - slippage
             gross_pnl == (actual_exit_price - position.entry_price) * position.quantity
             net_pnl == gross_pnl - b.config.commission_per_trade
             pnl_pct == Pct(actual_exit_price - position.entry_price, position.entry_price)
             proceeds == actual_exit_price * position.quantity
             trade == [ ticker      |-> ticker,
                        entry_time  |-> position.entry_time,
                        exit_time   |-> timestamp,
                        entry_price |-> position.entry_price,
                        exit_price  |-> actual_exit_price,
                        quantity    |-> position.quantity,
                        pnl         |-> net_pnl,
                        pnl_pct     |-> pnl_pct,
                        exit_reason |-> reason,
                        commission  |-> b.config.commission_per_trade * 2,
                        slippage    |-> slippage * position.quantity * 2 ]
         IN  Result([b EXCEPT !.capital = @ + proceeds - b.config.commission_per_trade,
                              !.trades = Append(@, trade),
                              !.total_trades = @ + 1,
                              !.daily_pnl = @ + net_pnl,
                              !.winning_trades = IF net_pnl >= 0 THEN @ + 1 ELSE @,
                              !.losing_trades = IF net_pnl >= 0 THEN @ ELSE @ + 1,
                              !.positions = [k \in DOMAIN @ \ {ticker} |-> @[k]]],
                    trade)

close_position_drops_flat(b, ticker, timestamp, price, reason) ==
    IF ticker \notin DOMAIN b.positions
    THEN Result(b, None)
    ELSE LET position == b.positions[ticker]
             slippage == SlippageOf(b.config, price)
             actual_exit_price == price - slippage
             gross_pnl == (actual_exit_price - position.entry_price) * position.quantity
             net_pnl == gross_pnl - b.config.commission_per_trade
             pnl_pct == Pct(actual_exit_price - position.entry_price, position.entry_price)
             proceeds == actual_exit_price * position.quantity
             trade == [ ticker      |-> ticker,
                        entry_time  |-> position.entry_time,
                        exit_time   |-> timestamp,
                        entry_price |-> position.entry_price,
                        exit_price  |-> actual_exit_price,
                        quantity    |-> position.quantity,
                        pnl         |-> net_pnl,
                        pnl_pct     |-> pnl_pct,
                        exit_reason |-> reason,
                        commission  |-> b.config.commission_per_trade * 2,
                        slippage    |-> slippage * position.quantity * 2 ]
         IN  Result([b EXCEPT !.capital = @ + proceeds - b.config.commission_per_trade,
                              !.trades = Append(@, trade),
                              !.total_trades = @ + 1,
                              !.daily_pnl = @ + net_pnl,
                              !.winning_trades = IF net_pnl > 0 THEN @ + 1 ELSE @,
                              !.losing_trades = IF net_pnl < 0 THEN @ + 1 ELSE @,
                              !.positions = [k \in DOMAIN @ \ {ticker} |-> @[k]]],
                    trade)

close_position_resets_daily(b, ticker, timestamp, price, reason) ==
    IF ticker \notin DOMAIN b.positions
    THEN Result(b, None)
    ELSE LET position == b.positions[ticker]
             slippage == SlippageOf(b.config, price)
             actual_exit_price == price - slippage
             gross_pnl == (actual_exit_price - position.entry_price) * position.quantity
             net_pnl == gross_pnl - b.config.commission_per_trade
             pnl_pct == Pct(actual_exit_price - position.entry_price, position.entry_price)
             proceeds == actual_exit_price * position.quantity
             trade == [ ticker      |-> ticker,
                        entry_time  |-> position.entry_time,
                        exit_time   |-> timestamp,
                        entry_price |-> position.entry_price,
                        exit_price  |-> actual_exit_price,
                        quantity    |-> position.quantity,
                        pnl         |-> net_pnl,
                        pnl_pct     |-> pnl_pct,
                        exit_reason |-> reason,
                        commission  |-> b.config.commission_per_trade * 2,
                        slippage    |-> slippage * position.quantity * 2 ]
         IN  Result([b EXCEPT !.capital = @ + proceeds - b.config.commission_per_trade,
                              !.trades = Append(@, trade),
                              !.total_trades = @ + 1,
                              !.daily_pnl = IF b.trades # <<>> /\ DateOf(b.trades[Len(b.trades)].exit_time) # DateOf(timestamp)
                                           THEN net_pnl ELSE @ + net_pnl,
                              !.winning_trades = IF net_pnl > 0 THEN @ + 1 ELSE @,
                              !.losing_trades = IF net_pnl > 0 THEN @ ELSE @ + 1,
                              !.positions = [k \in DOMAIN @ \ {ticker} |-> @[k]]],
                    trade)

close_position_books_both_fees(b, ticker, timestamp, price, reason) ==
    IF ticker \notin DOMAIN b.positions
    THEN Result(b, None)
    ELSE LET position == b.positions[ticker]
             slippage == SlippageOf(b.config, price)
             actual_exit_price == price - slippage
             gross_pnl == (actual_exit_price - position.entry_price) * position.quantity
             net_pnl == gross_pnl - b.config.commission_per_trade * 2
             pnl_pct == Pct(actual_exit_price - position.entry_price, position.entry_price)
             proceeds == actual_exit_price * position.quantity
             trade == [ ticker      |-> ticker,
                        entry_time  |-> position.entry_time,
                        exit_time   |-> timestamp,
                        entry_price |-> position.entry_price,
                        exit_price  |-> actual_exit_price,
                        quantity    |-> position.quantity,
                        pnl         |-> net_pnl,
                        pnl_pct     |-> pnl_pct,
                        exit_reason |-> reason,
                        commission  |-> b.config.commission_per_trade * 2,
                        slippage    |-> slippage * position.quantity * 2 ]
         IN  Result([b EXCEPT !.capital = @ + proceeds - b.config.commission_per_trade,
                              !.trades = Append(@, trade),
                              !.total_trades = @ + 1,
                              !.daily_pnl = @ + net_pnl,
                              !.winning_trades = IF net_pnl > 0 THEN @ + 1 ELSE @,
                              !.losing_trades = IF net_pnl > 0 THEN @ ELSE @ + 1,
                              !.positions = [k \in DOMAIN @ \ {ticker} |-> @[k]]],
                    trade)

close_position(b, ticker, timestamp, price, reason) ==
    IF ticker \notin DOMAIN b.positions
    THEN Result(b, None)
    ELSE LET position == b.positions[ticker]
             slippage == SlippageOf(b.config, price)
             actual_exit_price == price - slippage
             gross_pnl == (actual_exit_price - position.entry_price) * position.quantity
             net_pnl == gross_pnl - b.config.commission_per_trade
             pnl_pct == Pct(actual_exit_price - position.entry_price, position.entry_price)
             proceeds == actual_exit_price * position.quantity
             trade == [ ticker      |-> ticker,
                        entry_time  |-> position.entry_time,
                        exit_time   |-> timestamp,
                        entry_price |-> position.entry_price,
                        exit_price  |-> actual_exit_price,
                        quantity    |-> position.quantity,
                        pnl         |-> net_pnl,
                        pnl_pct     |-> pnl_pct,
                        exit_reason |-> reason,
                        commission  |-> b.config.commission_per_trade * 2,
                        slippage    |-> slippage * position.quantity * 2 ]
         IN  Result([b EXCEPT !.capital = @ + proceeds - b.config.commission_per_trade,
                              !.trades = Append(@, trade),
                              !.total_trades = @ + 1,
                              !.daily_pnl = @ + net_pnl,
                              !.winning_trades = IF net_pnl > 0 THEN @ + 1 ELSE @,
                              !.losing_trades = IF net_pnl > 0 THEN @ ELSE @ + 1,
                              !.positions = [k \in DOMAIN @ \ {ticker} |-> @[k]]],
                    trade)

\* current_prices is a dict: a function from some tickers to prices
update_positions_marks_to_market(b, current_prices, timestamp) ==
    [b EXCEPT !.positions =
        [k \in DOMAIN @ |->
            IF k \in DOMAIN current_prices
            THEN [update_highest_price(@[k], current_prices[k])
                      EXCEPT !.stop_loss = Max(@, current_prices[k])]
            ELSE @[k]]]

update_positions(b, current_prices, timestamp) ==
    [b EXCEPT !.positions =
        [k \in DOMAIN @ |->
            IF k \in DOMAIN current_prices
            THEN update_highest_price(@[k], current_prices[k])
            ELSE @[k]]]

RECURSIVE SumOver(_, _, _)
SumOver(positions, current_prices, tickers) ==
    IF tickers = {} THEN 0
    ELSE LET k == CHOOSE x \in tickers : TRUE
         IN  (IF k \in DOMAIN current_prices
              THEN current_prices[k] * positions[k].quantity ELSE 0)
             + SumOver(positions, current_prices, tickers \ {k})

position_value_of_last_known(b, current_prices) ==
    SumOver(b.positions,
            [k \in DOMAIN b.positions |->
                IF k \in DOMAIN current_prices THEN current_prices[k]
                ELSE b.positions[k].highest_price],
            DOMAIN b.positions)

position_value_of(b, current_prices) ==
    SumOver(b.positions, current_prices, DOMAIN b.positions)

\* the division by peak_equity in the else branch, when peak_equity is 0.0
record_equity_raises(b, current_prices) ==
    LET total_equity == b.capital + position_value_of(b, current_prices)
    IN  ~(total_equity > b.peak_equity) /\ b.peak_equity = 0

record_drawdown_forgets_peak(b, total_equity) ==
    IF total_equity > b.peak_equity
    THEN [b EXCEPT !.peak_equity = total_equity, !.current_drawdown = FracZero]
    ELSE [b EXCEPT !.peak_equity = total_equity,
                   !.current_drawdown = Pct(b.peak_equity - total_equity, b.peak_equity)]

\* record_equity's update of peak equity and drawdown
record_drawdown(b, total_equity) ==
    IF total_equity > b.peak_equity
    THEN [b EXCEPT !.peak_equity = total_equity, !.current_drawdown = FracZero]
    ELSE [b EXCEPT !.current_drawdown =
                       Pct(b.peak_equity - total_equity, b.peak_equity)]

record_equity(b, timestamp, current_prices) ==
    LET position_value == position_value_of(b, current_prices)
        total_equity == b.capital + position_value
        b1 == record_drawdown(b, total_equity)
    IN  [b1 EXCEPT !.equity_curve =
            Append(@, [ timestamp      |-> timestamp,
                        equity         |-> total_equity,
                        capital        |-> b.capital,
                        position_value |-> position_value,
                        drawdown       |-> b1.current_drawdown,
                        num_positions  |-> Cardinality(DOMAIN b.positions) ])]

\* get_performance_metrics.  The ratios are exact fractions; the Sharpe
\* ratio, a statistic of the equity returns, is left out of the result.
RECURSIVE SumOf(_)
SumOf(numbers) ==
    IF numbers = <<>> THEN 0 ELSE Head(numbers) + SumOf(Tail(numbers))

RECURSIVE MaxOf(_)
MaxOf(numbers) ==
    IF Len(numbers) = 1 THEN Head(numbers) ELSE Max(Head(numbers), MaxOf(Tail(numbers)))

\* the larger of two fractions with positive denominators
FracMax(f, g) == IF f[1] * g[2] >= g[1] * f[2] THEN f ELSE g

RECURSIVE MaxDrawdownOf(_)
MaxDrawdownOf(points) ==
    IF Len(points) = 1 THEN points[1].drawdown
    ELSE FracMax(points[1].drawdown, MaxDrawdownOf(Tail(points)))

\* [t.pnl for t in self.trades if t.pnl > 0] and [abs(t.pnl) ... if t.pnl < 0]
winning_pnls_of(b) ==
    LET pnls == [i \in 1..Len(b.trades) |-> b.trades[i].pnl]
    IN  SelectSeq(pnls, LAMBDA x : x > 0)

losing_pnls_of(b) ==
    LET pnls == [i \in 1..Len(b.trades) |-> b.trades[i].pnl]
        losses == SelectSeq(pnls, LAMBDA x : x < 0)
    IN  [i \in 1..Len(losses) |-> Abs(losses[i])]

\* the division by starting_capital
get_performance_metrics_raises(b) ==
    b.trades # <<>> /\ b.starting_capital = 0

get_performance_metrics_infinite(b) ==
    IF b.trades = <<>>
    THEN Result(b, [ total_return |-> FracZero, total_trades |-> 0,
                     win_rate |-> FracZero, profit_factor |-> FracZero ])
    ELSE LET final_equity == IF Len(b.equity_curve) > 0
                             THEN b.equity_curve[Len(b.equity_curve)].equity
                             ELSE b.starting_capital
             total_return == Pct(final_equity - b.starting_capital, b.starting_capital)
             winning_pnls == winning_pnls_of(b)
             losing_pnls == losing_pnls_of(b)
             win_rate == IF b.total_trades > 0
                         THEN Pct(b.winning_trades, b.total_trades) ELSE FracZero
             total_wins == SumOf(winning_pnls)
             total_losses == SumOf(losing_pnls)
             profit_factor == IF total_losses > 0
                              THEN Frac(total_wins, total_losses) ELSE <<1, 0>>
             max_drawdown == IF Len(b.equity_curve) > 0
                             THEN MaxDrawdownOf(b.equity_curve) ELSE FracZero
         IN  Result(b, [ starting_capital |-> b.starting_capital,
                         final_equity     |-> final_equity,
                         total_return     |-> total_return,
                         total_return_pct |-> total_return,
                         max_drawdown     |-> max_drawdown,
                         total_trades     |-> b.total_trades,
                         winning_trades   |-> b.winning_trades,
                         losing_trades    |-> b.losing_trades,
                         win_rate         |-> win_rate,
                         profit_factor    |-> profit_factor,
                         avg_win          |-> IF winning_pnls # <<>>
                                              THEN Frac(total_wins, Len(winning_pnls))
                                              ELSE FracZero,
                         avg_loss         |-> IF losing_pnls # <<>>
                                              THEN Frac(total_losses, Len(losing_pnls))
                                              ELSE FracZero,
                         largest_win      |-> IF winning_pnls # <<>>
                                              THEN MaxOf(winning_pnls) ELSE 0,
                         largest_loss     |-> IF losing_pnls # <<>>
                                              THEN MaxOf(losing_pnls) ELSE 0,
                         total_commission |-> SumOf([i \in 1..Len(b.trades) |->
                                                        b.trades[i].commission]),
                         total_slippage   |-> SumOf([i \in 1..Len(b.trades) |->
                                                        b.trades[i].slippage]) ])

get_performance_metrics(b) ==
    IF b.trades = <<>>
    THEN Result(b, [ total_return |-> FracZero, total_trades |-> 0,
                     win_rate |-> FracZero, profit_factor |-> FracZero ])
    ELSE LET final_equity == IF Len(b.equity_curve) > 0
                             THEN b.equity_curve[Len(b.equity_curve)].equity
                             ELSE b.starting_capital
             total_return == Pct(final_equity - b.starting_capital, b.starting_capital)
             winning_pnls == winning_pnls_of(b)
             losing_pnls == losing_pnls_of(b)
             win_rate == IF b.total_trades > 0
                         THEN Pct(b.winning_trades, b.total_trades) ELSE FracZero
             total_wins == SumOf(winning_pnls)
             total_losses == SumOf(losing_pnls)
             profit_factor == IF total_losses > 0
                              THEN Frac(total_wins, total_losses) ELSE FracZero
             max_drawdown == IF Len(b.equity_curve) > 0
                             THEN MaxDrawdownOf(b.equity_curve) ELSE FracZero
         IN  Result(b, [ starting_capital |-> b.starting_capital,
                         final_equity     |-> final_equity,
                         total_return     |-> total_return,
                         total_return_pct |-> total_return,
                         max_drawdown     |-> max_drawdown,
                         total_trades     |-> b.total_trades,
                         winning_trades   |-> b.winning_trades,
                         losing_trades    |-> b.losing_trades,
                         win_rate         |-> win_rate,
                         profit_factor    |-> profit_factor,
                         avg_win          |-> IF winning_pnls # <<>>
                                              THEN Frac(total_wins, Len(winning_pnls))
                                              ELSE FracZero,
                         avg_loss         |-> IF losing_pnls # <<>>
                                              THEN Frac(total_losses, Len(losing_pnls))
                                              ELSE FracZero,
                         largest_win      |-> IF winning_pnls # <<>>
                                              THEN MaxOf(winning_pnls) ELSE 0,
                         largest_loss     |-> IF losing_pnls # <<>>
                                              THEN MaxOf(losing_pnls) ELSE 0,
                         total_commission |-> SumOf([i \in 1..Len(b.trades) |->
                                                        b.trades[i].commission]),
                         total_slippage   |-> SumOf([i \in 1..Len(b.trades) |->
                                                        b.trades[i].slippage]) ])

---------------------------------------------------------------------------
(* TradingStrategy.  A price is in cents, a time of day in minutes since   *)
(* midnight Eastern, a threshold that is not whole a fraction <<n, d>>.    *)

Cents(d) == d * 100

TradingStrategyInit ==
    [ min_stock_price           |-> Cents(20),
      max_stock_price           |-> Cents(500),
      rsi_lower                 |-> 40,
      rsi_upper                 |-> 70,
      volume_multiplier         |-> <<6, 5>>,      \* 1.2
      min_atr                   |-> 50,            \* 0.5 dollars
      stop_loss_pct             |-> <<1, 1>>,
      take_profit_pct           |-> <<3, 2>>,      \* 1.5
      trailing_stop_trigger_pct |-> <<1, 1>>,
      trailing_stop_pct         |-> <<1, 2>>,      \* 0.5
      trading_start             |-> 10 * 60,
      trading_end               |-> 15 * 60,
      position_close_time       |-> 15 * 60 + 55 ]

\* int() of the quotient a / b: the quotient rounded towards zero
TruncDiv(a, b) ==
    IF (a >= 0) = (b > 0) THEN Abs(a) \div Abs(b) ELSE -(Abs(a) \div Abs(b))

Min(a, b) == IF a <= b THEN a ELSE b

\* Position sizing, in whole dollars.  position_value is a fifth of
\* account_value at most, kept as five times its value.
calculate_position_size_raises(price) == price = 0

calculate_position_size(s, account_value, price, max_position_size_arg) ==
    LET position_value5 == Min(5 * max_position_size_arg, account_value)
        shares == TruncDiv(position_value5, 5 * price)
    IN  Result(s, Max(shares, 1))

\* RiskManager.calculate_position_size, position_value kept as a hundred
\* times its value
rm_calculate_position_size(s, account_equity, stock_price) ==
    LET max_by_percentage100 == account_equity * position_size_pct
        position_value100 == Min(100 * max_position_size, max_by_percentage100)
        shares == TruncDiv(position_value100, 100 * stock_price)
    IN  Result(s, IF shares = 0 /\ account_equity >= stock_price THEN 1 ELSE shares)

\* A timestamp is naive or aware (here UTC), with its minute of the day.
\* pytz localizes a naive timestamp as Eastern and converts an aware one;
\* Eastern standard time is five hours behind UTC.
MinutesPerDay == 24 * 60
EasternOffset == 5 * 60

EasternTime(timestamp) ==
    IF timestamp.tz = "naive"
    THEN timestamp.minute
    ELSE (timestamp.minute - EasternOffset + MinutesPerDay) % MinutesPerDay

_is_trading_hours(s, timestamp) ==
    LET current_time == EasternTime(timestamp)
    IN  s.trading_start <= current_time /\ current_time <= s.trading_end

_should_close_positions_after(s, timestamp) ==
    EasternTime(timestamp) > s.position_close_time

_should_close_positions(s, timestamp) ==
    EasternTime(timestamp) >= s.position_close_time

\* current_data is a row of bar data: a function from column names to
\* values, where a value is <<x>> for the number x and NaN for not-a-number;
\* an indicator that was not computed is not in its domain.
NaN == <<>>
isna(value) == value = NaN
NotAvailable(current_data, column) ==
    column \notin DOMAIN current_data \/ isna(current_data[column])

Verdict(s, ok, reason) == [state |-> s, raised |-> None, ret |-> <<ok, reason>>]

check_entry_conditions_not_below(s, ticker, current_data, timestamp) ==
    LET price == current_data["close"][1] IN
    IF price < s.min_stock_price THEN Verdict(s, FALSE, "below minimum")
    ELSE IF price > s.max_stock_price THEN Verdict(s, FALSE, "above maximum")
    ELSE IF ~_is_trading_hours(s, timestamp) THEN Verdict(s, FALSE, "Outside trading hours")
    ELSE IF NotAvailable(current_data, "sma_50") THEN Verdict(s, FALSE, "SMA not available")
    ELSE IF price < current_data["sma_50"][1] THEN Verdict(s, FALSE, "not above SMA")
    ELSE IF NotAvailable(current_data, "rsi") THEN Verdict(s, FALSE, "RSI not available")
    ELSE IF current_data["rsi"][1] < s.rsi_lower \/ current_data["rsi"][1] > s.rsi_upper
         THEN Verdict(s, FALSE, "RSI outside range")
    ELSE IF NotAvailable(current_data, "volume_ma")
         THEN Verdict(s, FALSE, "Volume MA not available")
    ELSE IF current_data["volume"][1] * s.volume_multiplier[2]
                < s.volume_multiplier[1] * current_data["volume_ma"][1]
         THEN Verdict(s, FALSE, "Volume ratio below")
    ELSE IF NotAvailable(current_data, "atr") THEN Verdict(s, FALSE, "ATR not available")
    ELSE IF current_data["atr"][1] < s.min_atr THEN Verdict(s, FALSE, "ATR below minimum")
    ELSE Verdict(s, TRUE, "Above SMA | RSI | Vol | ATR")

check_entry_conditions_time_first(s, ticker, current_data, timestamp) ==
    LET price == current_data["close"][1] IN
    IF ~_is_trading_hours(s, timestamp) THEN Verdict(s, FALSE, "Outside trading hours")
    ELSE IF price < s.min_stock_price THEN Verdict(s, FALSE, "below minimum")
    ELSE IF price > s.max_stock_price THEN Verdict(s, FALSE, "above maximum")
    ELSE IF NotAvailable(current_data, "sma_50") THEN Verdict(s, FALSE, "SMA not available")
    ELSE IF price <= current_data["sma_50"][1] THEN Verdict(s, FALSE, "not above SMA")
    ELSE IF NotAvailable(current_data, "rsi") THEN Verdict(s, FALSE, "RSI not available")
    ELSE IF current_data["rsi"][1] < s.rsi_lower \/ current_data["rsi"][1] > s.rsi_upper
         THEN Verdict(s, FALSE, "RSI outside range")
    ELSE IF NotAvailable(current_data, "volume_ma")
         THEN Verdict(s, FALSE, "Volume MA not available")
    ELSE IF current_data["volume"][1] * s.volume_multiplier[2]
                < s.volume_multiplier[1] * current_data["volume_ma"][1]
         THEN Verdict(s, FALSE, "Volume ratio below")
    ELSE IF NotAvailable(current_data, "atr") THEN Verdict(s, FALSE, "ATR not available")
    ELSE IF current_data["atr"][1] < s.min_atr THEN Verdict(s, FALSE, "ATR below minimum")
    ELSE Verdict(s, TRUE, "Above SMA | RSI | Vol | ATR")

\* The reason is the text of the message without its numbers.  The volume
\* ratio volume / volume_ma is compared by cross-multiplication, volume_ma
\* being positive.
check_entry_conditions(s, ticker, current_data, timestamp) ==
    LET price == current_data["close"][1] IN
    IF price < s.min_stock_price THEN Verdict(s, FALSE, "below minimum")
    ELSE IF price > s.max_stock_price THEN Verdict(s, FALSE, "above maximum")
    ELSE IF ~_is_trading_hours(s, timestamp) THEN Verdict(s, FALSE, "Outside trading hours")
    ELSE IF NotAvailable(current_data, "sma_50") THEN Verdict(s, FALSE, "SMA not available")
    ELSE IF price <= current_data["sma_50"][1] THEN Verdict(s, FALSE, "not above SMA")
    ELSE IF NotAvailable(current_data, "rsi") THEN Verdict(s, FALSE, "RSI not available")
    ELSE IF current_data["rsi"][1] < s.rsi_lower \/ current_data["rsi"][1] > s.rsi_upper
         THEN Verdict(s, FALSE, "RSI outside range")
    ELSE IF NotAvailable(current_data, "volume_ma")
         THEN Verdict(s, FALSE, "Volume MA not available")
    ELSE IF current_data["volume"][1] * s.volume_multiplier[2]
                < s.volume_multiplier[1] * current_data["volume_ma"][1]
         THEN Verdict(s, FALSE, "Volume ratio below")
    ELSE IF NotAvailable(current_data, "atr") THEN Verdict(s, FALSE, "ATR not available")
    ELSE IF current_data["atr"][1] < s.min_atr THEN Verdict(s, FALSE, "ATR below minimum")
    ELSE Verdict(s, TRUE, "Above SMA | RSI | Vol | ATR")

\* The exit rules.  highest_price is <<h>>, or NoPrice when none is given.
\* A percentage x / y * 100 is compared with a threshold n / d by
\* cross-multiplication, y being a positive price.
NoPrice == <<>>

check_exit_conditions_time_first(s, position, current_price, timestamp, highest_price) ==
    LET entry_price == position.entry_price
        gain100 == (current_price - entry_price) * 100
    IN
    IF _should_close_positions(s, timestamp)
    THEN Verdict(s, TRUE, "Time Stop")
    ELSE IF gain100 * s.stop_loss_pct[2] <= -s.stop_loss_pct[1] * entry_price
    THEN Verdict(s, TRUE, "Stop Loss")
    ELSE IF gain100 * s.take_profit_pct[2] >= s.take_profit_pct[1] * entry_price
    THEN Verdict(s, TRUE, "Take Profit")
    ELSE IF /\ highest_price # NoPrice
            /\ gain100 * s.trailing_stop_trigger_pct[2] > s.trailing_stop_trigger_pct[1] * entry_price
            /\ (current_price - highest_price[1]) * 100 * s.trailing_stop_pct[2]
                  <= -s.trailing_stop_pct[1] * highest_price[1]
    THEN Verdict(s, TRUE, "Trailing Stop")
    ELSE Verdict(s, FALSE, None)

check_exit_conditions_exclusive(s, position, current_price, timestamp, highest_price) ==
    LET entry_price == position.entry_price
        gain100 == (current_price - entry_price) * 100
    IN
    IF gain100 * s.stop_loss_pct[2] < -s.stop_loss_pct[1] * entry_price
    THEN Verdict(s, TRUE, "Stop Loss")
    ELSE IF gain100 * s.take_profit_pct[2] > s.take_profit_pct[1] * entry_price
    THEN Verdict(s, TRUE, "Take Profit")
    ELSE IF _should_close_positions(s, timestamp)
    THEN Verdict(s, TRUE, "Time Stop")
    ELSE IF /\ highest_price # NoPrice
            /\ gain100 * s.trailing_stop_trigger_pct[2] > s.trailing_stop_trigger_pct[1] * entry_price
            /\ (current_price - highest_price[1]) * 100 * s.trailing_stop_pct[2]
                  <= -s.trailing_stop_pct[1] * highest_price[1]
    THEN Verdict(s, TRUE, "Trailing Stop")
    ELSE Verdict(s, FALSE, None)

check_exit_conditions_trails_from_high(s, position, current_price, timestamp, highest_price) ==
    LET entry_price == position.entry_price
        gain100 == (current_price - entry_price) * 100
    IN
    IF gain100 * s.stop_loss_pct[2] <= -s.stop_loss_pct[1] * entry_price
    THEN Verdict(s, TRUE, "Stop Loss")
    ELSE IF gain100 * s.take_profit_pct[2] >= s.take_profit_pct[1] * entry_price
    THEN Verdict(s, TRUE, "Take Profit")
    ELSE IF _should_close_positions(s, timestamp)
    THEN Verdict(s, TRUE, "Time Stop")
    ELSE IF /\ highest_price # NoPrice
            /\ (highest_price[1] - entry_price) * 100 * s.trailing_stop_trigger_pct[2]
                  > s.trailing_stop_trigger_pct[1] * entry_price
            /\ (current_price - highest_price[1]) * 100 * s.trailing_stop_pct[2]
                  <= -s.trailing_stop_pct[1] * highest_price[1]
    THEN Verdict(s, TRUE, "Trailing Stop")
    ELSE Verdict(s, FALSE, None)

check_exit_conditions(s, position, current_price, timestamp, highest_price) ==
    LET entry_price == position.entry_price
        gain100 == (current_price - entry_price) * 100
    IN
    IF gain100 * s.stop_loss_pct[2] <= -s.stop_loss_pct[1] * entry_price
    THEN Verdict(s, TRUE, "Stop Loss")
    ELSE IF gain100 * s.take_profit_pct[2] >= s.take_profit_pct[1] * entry_price
    THEN Verdict(s, TRUE, "Take Profit")
    ELSE IF _should_close_positions(s, timestamp)
    THEN Verdict(s, TRUE, "Time Stop")
    ELSE IF /\ highest_price # NoPrice
            /\ gain100 * s.trailing_stop_trigger_pct[2] > s.trailing_stop_trigger_pct[1] * entry_price
            /\ (current_price - highest_price[1]) * 100 * s.trailing_stop_pct[2]
                  <= -s.trailing_stop_pct[1] * highest_price[1]
    THEN Verdict(s, TRUE, "Trailing Stop")
    ELSE Verdict(s, FALSE, None)

\* generate_signals.  df is the sequence of its rows, each with a timestamp
\* column.  An element of current_positions is a ticker string, a dict or an
\* object, modelled by its shape and the ticker it carries (None for a dict
\* without the key or an object without the attribute).
Signal(ticker, signal_type, timestamp, price, reason) ==
    [ ticker |-> ticker, signal_type |-> signal_type, timestamp |-> timestamp,
      price |-> price, reason |-> reason, confidence |-> 1 ]

PositionIs_dict_only(position, ticker) ==
    position.shape = "dict" /\ position.ticker = ticker

\* the test of one element of current_positions
PositionIs(position, ticker) ==
    CASE position.shape = "str"  -> position.ticker = ticker
      [] position.shape = "dict" -> position.ticker = ticker    \* position.get('ticker')
      [] OTHER                   -> position.ticker = ticker    \* getattr(position, 'ticker', None)

has_position_in(ticker, current_positions) ==
    \E i \in 1..Len(current_positions) : PositionIs(current_positions[i], ticker)

generate_signals(s, ticker, df, current_positions) ==
    IF df = <<>>
    THEN [state |-> s, raised |-> None, ret |-> <<>>]
    ELSE LET latest == df[Len(df)]
             timestamp == latest["timestamp"][1]
         IN  IF has_position_in(ticker, current_positions)
             THEN [state |-> s, raised |-> None, ret |-> <<>>]
             ELSE LET r == check_entry_conditions(s, ticker, latest, timestamp) IN
                  IF r.ret[1]
                  THEN [state |-> r.state, raised |-> None,
                        ret |-> << Signal(ticker, "buy", timestamp,
                                          latest["close"][1], r.ret[2]) >>]
                  ELSE [state |-> r.state, raised |-> None, ret |-> <<>>]

\* get_stop_loss_price and get_take_profit_price
get_stop_loss_price(s, entry_price) ==
    (entry_price * (100 * s.stop_loss_pct[2] - s.stop_loss_pct[1]))
        \div (100 * s.stop_loss_pct[2])
get_take_profit_price(s, entry_price) ==
    (entry_price * (100 * s.take_profit_pct[2] + s.take_profit_pct[1]))
        \div (100 * s.take_profit_pct[2])

---------------------------------------------------------------------------
(* The record of the last call, and the history *)

NoCall ==
    [ op |-> "init", pnl |-> 0, ts |-> 0, halted_before |-> FALSE,
      weekly_reset |-> FALSE, raised |-> None, ret |-> <<>> ]

\* who: the object the function was called on
NoStCall ==
    [ op |-> "init", who |-> None, args |-> <<>>, raised |-> None, ret |-> <<>> ]

ObsInit ==
    [ max_equity |-> <<>>,    \* the largest account_equity shown to update_drawdown
      last_ts    |-> NoTime,  \* the timestamp of the last call that had one
      monotone   |-> TRUE,    \* no call's timestamp was before its predecessor's
      week_first |-> NoTime,  \* the earliest timestamp of the P&L summed in weekly_pnl
      week_last  |-> NoTime ] \* and the latest

ObserveTime(o, ts) ==
    [o EXCEPT !.last_ts = Some(ts),
              !.monotone = @ /\ (o.last_ts = NoTime \/ TheTime(o.last_ts) <= ts)]

\* weekly_pnl was set to zero by the call that led from s to t
WeeklyWasReset(s, t) ==
    s.week_start_date # NoTime /\ t.week_start_date # s.week_start_date

ObservePnl(timestamp) ==
    rm_obs' = [ObserveTime(rm_obs, timestamp) EXCEPT
                  !.week_first =
                      IF WeeklyWasReset(rm, rm') \/ @ = NoTime THEN Some(timestamp)
                      ELSE IF timestamp < TheTime(@) THEN Some(timestamp) ELSE @,
                  !.week_last =
                      IF WeeklyWasReset(rm, rm') \/ @ = NoTime THEN Some(timestamp)
                      ELSE IF timestamp > TheTime(@) THEN Some(timestamp) ELSE @]

ObserveEquity(o, account_equity) ==
    [o EXCEPT !.max_equity =
                  IF rm.trading_halted THEN @
                  ELSE IF @ = <<>> \/ account_equity > @[1]
                       THEN <<account_equity>> ELSE @]

\* the gate specification records the equities, the clock specification the times
ObserveTrade(account_equity) ==
    rm_obs' = ObserveEquity(rm_obs, account_equity)

ObserveTradeTime(account_equity, timestamp) ==
    rm_obs' = [ObserveTime(ObserveEquity(rm_obs, account_equity), timestamp) EXCEPT
                  !.week_first = IF WeeklyWasReset(rm, rm') THEN NoTime ELSE @,
                  !.week_last = IF WeeklyWasReset(rm, rm') THEN NoTime ELSE @]

\* closed: the call was a close_position that returned a Trade
\* timestamp: the timestamp an open_position was given
NoBtCall ==
    [ op |-> "init", ticker |-> None, timestamp |-> NoTime, raised |-> None,
      ret |-> <<>>, closed |-> FALSE ]

NoTickers == [ticker \in {} |-> 0]

BtObsInit(config) ==
    [ max_equity  |-> config.starting_capital, \* the largest equity known so far
      seen        |-> NoTickers,  \* per open ticker: the largest of its entry price
                                  \* and the prices update_positions was given for it
      cash_before |-> NoTickers,  \* per open ticker: <<cash before its open_position>>,
                                  \* or <<>> once another ticker was opened or closed
      opened      |-> 0 ]         \* how many open_position calls returned True

\* a call of open_position that returned ok
ObserveOpen(o, b, ticker, price, ok) ==
    IF ~ok THEN o
    ELSE [o EXCEPT
            !.opened = @ + 1,
            !.seen = [k \in DOMAIN @ \cup {ticker} |->
                         IF k = ticker THEN price + SlippageOf(b.config, price) ELSE @[k]],
            !.cash_before = [k \in DOMAIN @ \cup {ticker} |->
                                IF k = ticker THEN <<b.capital>> ELSE <<>>]]

\* a call of close_position that closed (ok) the position of ticker
ObserveClose(o, ticker, ok) ==
    IF ~ok THEN o
    ELSE [o EXCEPT
            !.seen = [k \in DOMAIN @ \ {ticker} |-> @[k]],
            !.cash_before = [k \in DOMAIN @ \ {ticker} |-> <<>>]]

\* a call of update_positions
ObserveUpdate(o, current_prices) ==
    [o EXCEPT !.seen = [k \in DOMAIN @ |->
                           IF k \in DOMAIN current_prices
                           THEN Max(@[k], current_prices[k]) ELSE @[k]]]

\* both objects as constructed, the engine with the default configuration
Init ==
    /\ rm = RiskManagerInit
    /\ rm_call = NoCall
    /\ rm_obs = ObsInit
    /\ bt = BacktestEngineInit(BacktestConfig(Dollars(10000)))
    /\ bt_call = NoBtCall
    /\ bt_obs = BtObsInit(BacktestConfig(Dollars(10000)))
    /\ st = TradingStrategyInit
    /\ st_call = NoStCall

OpenPosition(ticker, timestamp, price, quantity, stop_loss, take_profit) ==
    LET r == open_position(bt, ticker, timestamp, price, quantity, stop_loss, take_profit)
    IN
    /\ bt' = r.state
    /\ bt_call' = [NoBtCall EXCEPT !.op = "open_position", !.ticker = ticker,
                                   !.timestamp = Some(timestamp), !.ret = r.ret]
    /\ bt_obs' = ObserveOpen(bt_obs, bt, ticker, price, r.ret = <<TRUE>>)
    /\ UNCHANGED <<rm_vars, st_vars>>

\* close_position, not called on an open position once the trade list has
\* cap trades
ClosePositionWithin(cap, ticker, timestamp, price, reason) ==
    /\ ticker \in DOMAIN bt.positions => Len(bt.trades) < cap
    /\ IF close_position_raises(bt, ticker)
       THEN /\ bt_call' = [NoBtCall EXCEPT !.op = "close_position", !.ticker = ticker,
                                           !.raised = "ZeroDivisionError"]
            /\ UNCHANGED bt
       ELSE LET r == close_position(bt, ticker, timestamp, price, reason) IN
            /\ bt' = r.state
            /\ bt_call' = [NoBtCall EXCEPT !.op = "close_position", !.ticker = ticker,
                                           !.ret = r.ret,
                                           !.closed = ticker \in DOMAIN bt.positions]
    /\ bt_obs' = ObserveClose(bt_obs, ticker,
                     ticker \in DOMAIN bt.positions /\ ~close_position_raises(bt, ticker))
    /\ UNCHANGED <<rm_vars, st_vars>>

UpdatePositions(current_prices, timestamp) ==
    /\ bt' = update_positions(bt, current_prices, timestamp)
    /\ bt_call' = [NoBtCall EXCEPT !.op = "update_positions"]
    /\ bt_obs' = ObserveUpdate(bt_obs, current_prices)
    /\ UNCHANGED <<rm_vars, st_vars>>

ClosePosition(ticker, timestamp, price, reason) ==
    ClosePositionWithin(MaxTrades, ticker, timestamp, price, reason)

\* record_equity, not called once the equity curve has cap points
RecordEquityWithin(cap, timestamp, current_prices) ==
    /\ Len(bt.equity_curve) < cap
    /\ IF record_equity_raises(bt, current_prices)
       THEN /\ bt_call' = [NoBtCall EXCEPT !.op = "record_equity",
                                           !.raised = "ZeroDivisionError"]
            /\ UNCHANGED bt
       ELSE /\ bt' = record_equity(bt, timestamp, current_prices)
            /\ bt_call' = [NoBtCall EXCEPT !.op = "record_equity"]
    /\ bt_obs' = [bt_obs EXCEPT !.max_equity =
                      Max(@, bt.capital + position_value_of(bt, current_prices))]
    /\ UNCHANGED <<rm_vars, st_vars>>

RecordEquity(timestamp, current_prices) ==
    RecordEquityWithin(MaxPoints, timestamp, current_prices)

GetPerformanceMetrics ==
    /\ IF get_performance_metrics_raises(bt)
       THEN /\ bt_call' = [NoBtCall EXCEPT !.op = "get_performance_metrics",
                                           !.raised = "ZeroDivisionError"]
            /\ UNCHANGED bt
       ELSE LET r == get_performance_metrics(bt) IN
            /\ bt' = r.state
            /\ bt_call' = [NoBtCall EXCEPT !.op = "get_performance_metrics",
                                           !.ret = r.ret]
    /\ UNCHANGED <<bt_obs, rm_vars, st_vars>>

UpdatePnl(pnl, timestamp, cap) ==
    LET s == update_pnl(rm, pnl, timestamp) IN
    /\ Abs(s.daily_pnl) <= cap
    /\ Abs(s.weekly_pnl) <= cap
    /\ rm' = s
    /\ rm_call' = [NoCall EXCEPT !.op = "update_pnl", !.pnl = pnl, !.ts = timestamp,
                                 !.halted_before = rm.trading_halted,
                                 !.weekly_reset = WeeklyWasReset(rm, s)]
    /\ UNCHANGED <<bt_vars, st_vars>>

ValidateTrade(ticker, price, quantity, account_equity, current_positions, timestamp) ==
    LET r == validate_trade(rm, ticker, price, quantity, account_equity,
                            current_positions, timestamp)
    IN
    /\ rm' = r.state
    /\ rm_call' = [NoCall EXCEPT !.op = "validate_trade", !.ts = timestamp,
                                 !.halted_before = rm.trading_halted,
                                 !.weekly_reset = WeeklyWasReset(rm, r.state),
                                 !.raised = r.raised, !.ret = r.ret]
    /\ UNCHANGED <<bt_vars, st_vars>>

ResumeTrading ==
    /\ rm' = resume_trading(rm)
    /\ rm_call' = [NoCall EXCEPT !.op = "resume_trading",
                                 !.halted_before = rm.trading_halted]
    /\ UNCHANGED <<bt_vars, st_vars>>

StrategyPositionSize(account_value, price) ==
    /\ IF calculate_position_size_raises(price)
       THEN /\ st_call' = [NoStCall EXCEPT !.op = "calculate_position_size",
                                           !.who = "TradingStrategy",
                                           !.args = <<account_value, price>>,
                                           !.raised = "ZeroDivisionError"]
            /\ UNCHANGED st
       ELSE LET r == calculate_position_size(st, account_value, price, max_position_size) IN
            /\ st' = r.state
            /\ st_call' = [NoStCall EXCEPT !.op = "calculate_position_size",
                                           !.who = "TradingStrategy",
                                           !.args = <<account_value, price>>,
                                           !.ret = r.ret]
    /\ UNCHANGED <<rm_vars, bt_vars>>

RiskPositionSize(account_equity, stock_price) ==
    /\ IF calculate_position_size_raises(stock_price)
       THEN /\ st_call' = [NoStCall EXCEPT !.op = "calculate_position_size",
                                           !.who = "RiskManager",
                                           !.args = <<account_equity, stock_price>>,
                                           !.raised = "ZeroDivisionError"]
            /\ UNCHANGED rm
       ELSE LET r == rm_calculate_position_size(rm, account_equity, stock_price) IN
            /\ rm' = r.state
            /\ st_call' = [NoStCall EXCEPT !.op = "calculate_position_size",
                                           !.who = "RiskManager",
                                           !.args = <<account_equity, stock_price>>,
                                           !.ret = r.ret]
    /\ UNCHANGED <<rm_call, rm_obs, bt_vars, st>>

CheckExitConditions ==
    /\ st_call.op = "init"
    /\ Len(st_call.args) = 4
    /\ LET r == check_exit_conditions(st, st_call.args[1], st_call.args[2],
                                      st_call.args[3], st_call.args[4]) IN
       /\ st' = r.state
       /\ st_call' = [st_call EXCEPT !.op = "check_exit_conditions",
                                     !.who = "TradingStrategy",
                                     !.ret = r.ret]
    /\ UNCHANGED <<rm_vars, bt_vars>>

GenerateSignals ==
    /\ st_call.op = "init"
    /\ Len(st_call.args) = 3
    /\ LET r == generate_signals(st, st_call.args[1], st_call.args[2], st_call.args[3]) IN
       /\ st' = r.state
       /\ st_call' = [st_call EXCEPT !.op = "generate_signals",
                                     !.who = "TradingStrategy",
                                     !.ret = r.ret]
    /\ UNCHANGED <<rm_vars, bt_vars>>

\* the call whose arguments the initial state holds
CheckEntryConditions ==
    /\ st_call.op = "init"
    /\ Len(st_call.args) = 3
    /\ LET r == check_entry_conditions(st, st_call.args[1], st_call.args[2], st_call.args[3]) IN
       /\ st' = r.state
       /\ st_call' = [st_call EXCEPT !.op = "check_entry_conditions",
                                     !.who = "TradingStrategy",
                                     !.ret = r.ret]
    /\ UNCHANGED <<rm_vars, bt_vars>>

---------------------------------------------------------------------------
(* Inputs *)

Tickers    == {"AAPL", "MSFT"}
Prices     == {100, 900}
Quantities == {1, 2}
Equities   == {0, 850, 1000, 2000}
Counts     == {0, 5}
GatePnLs   == {-150, 150}
GateTimes  == {d * SlotsPerDay : d \in 0..MaxGateDay}
ClockPnLs  == {-25}
ClockTimes == (0..MaxEarly)
                \cup {WeekDays * SlotsPerDay - 1 + k : k \in 0..MaxLate}

\* The gate: every argument of validate_trade varies, over few dates
GateStep ==
    \/ \E pnl \in GatePnLs, ts \in GateTimes :
            UpdatePnl(pnl, ts, MaxAbsPnl) /\ UNCHANGED rm_obs
    \/ \E price \in Prices, quantity \in Quantities,
          equity \in Equities, n \in Counts, ts \in GateTimes :
            ValidateTrade("AAPL", price, quantity, equity, n, ts)
                /\ ObserveTrade(equity)
    \/ ResumeTrading /\ UNCHANGED rm_obs

SpecGate == Init /\ [][GateStep]_vars

\* The clock: timestamps vary over more than a week, the trade is fixed
ClockStep ==
    \/ \E pnl \in ClockPnLs, ts \in ClockTimes :
            UpdatePnl(pnl, ts, MaxClockPnl) /\ ObservePnl(ts)
    \/ \E ts \in ClockTimes :
            ValidateTrade("AAPL", 100, 1, 1000, 0, ts)
                /\ ObserveTradeTime(1000, ts)
    \/ ResumeTrading /\ UNCHANGED rm_obs

SpecClock == Init /\ [][ClockStep]_vars

\* The engine's prices and starting capitals
BtPrices     == {Dollars(0), Dollars(100), Dollars(150)}
BtCapitals   == {Dollars(0), Dollars(1500)}
PriceDicts(tickers) == UNION {[S -> BtPrices] : S \in SUBSET tickers}

\* Both drawdown trackers: validate_trade over the equities, and the engine's
\* operations on one ticker.  The two objects share no state, so a behaviour
\* exercises one of them and leaves the other as constructed.
DrawdownStep ==
    \/ \E equity \in Equities :
          /\ bt_call.op = "init"
          /\ ValidateTrade("AAPL", 100, 1, equity, 0, 0)
          /\ ObserveTrade(equity)
    \/ /\ bt_call.op = "init"
       /\ ResumeTrading
       /\ UNCHANGED rm_obs
    \/ \E price \in BtPrices :
          /\ rm_call.op = "init"
          /\ OpenPosition("AAPL", 0, price, 6, Dollars(90), Dollars(110))
    \/ \E price \in BtPrices :
          /\ rm_call.op = "init"
          /\ ClosePosition("AAPL", 0, price, "Stop Loss")
    \/ \E prices \in PriceDicts({"AAPL"}) :
          /\ rm_call.op = "init"
          /\ UpdatePositions(prices, 0)
    \/ \E prices \in PriceDicts({"AAPL"}) :
          /\ rm_call.op = "init"
          /\ RecordEquity(0, prices)

\* the engine constructed with a starting capital of BtCapitals
InitDrawdown ==
    \E capital \in BtCapitals :
        /\ rm = RiskManagerInit
        /\ rm_call = NoCall
        /\ rm_obs = ObsInit
        /\ bt = BacktestEngineInit(BacktestConfig(capital))
        /\ bt_call = NoBtCall
        /\ bt_obs = BtObsInit(BacktestConfig(capital))
        /\ st = TradingStrategyInit
        /\ st_call = NoStCall

SpecDrawdown == InitDrawdown /\ [][DrawdownStep]_vars

\* The ledger: the engine's four operations on two tickers, under two
\* configurations: the defaults with a commission of one dollar, and no
\* slippage, no commission and a single position allowed.
LedgerTickers    == {"AAPL", "MSFT"}
LedgerPrices     == {Dollars(100), Dollars(200)}
LedgerQuantities == {6}
LedgerPriceDicts == UNION {[S -> LedgerPrices] : S \in SUBSET LedgerTickers}
\* record_equity is given no price, or one price for every ticker
LedgerSnapshots  == {NoTickers, [k \in LedgerTickers |-> Dollars(100)]}
LedgerConfigs ==
    { [BacktestConfig(Dollars(2300)) EXCEPT !.commission_per_trade = Dollars(1)],
      [BacktestConfig(Dollars(3000)) EXCEPT !.max_positions = 1,
                                            !.slippage_pct = <<0, 1>>] }

LedgerStep ==
    \/ \E ticker \in LedgerTickers, price \in LedgerPrices, quantity \in LedgerQuantities :
          OpenPosition(ticker, 1, price, quantity, Dollars(90), Dollars(110))
    \/ \E ticker \in LedgerTickers, price \in LedgerPrices :
          ClosePosition(ticker, 2, price, "Take Profit")
    \/ \E prices \in LedgerPriceDicts :
          UpdatePositions(prices, 3)
    \/ \E prices \in LedgerSnapshots :
          RecordEquity(3, prices)

InitLedger ==
    \E config \in LedgerConfigs :
        /\ rm = RiskManagerInit
        /\ rm_call = NoCall
        /\ rm_obs = ObsInit
        /\ bt = BacktestEngineInit(config)
        /\ bt_call = NoBtCall
        /\ bt_obs = BtObsInit(config)
        /\ st = TradingStrategyInit
        /\ st_call = NoStCall

SpecLedger == InitLedger /\ [][LedgerStep]_vars

\* Position sizing: account values and prices in whole dollars, around the
\* points where twenty percent of the account, max_position_size and the
\* price cross
SizingEquities == {0, 100, 150, 600, 1000, 4000, 5000, 10000}
SizingPrices   == {0, 1, 30, 150, 151, 200, 1000, 1001}

SizingStep ==
    \/ \E account_value \in SizingEquities, price \in SizingPrices :
          StrategyPositionSize(account_value, price)
    \/ \E account_equity \in SizingEquities, stock_price \in SizingPrices :
          RiskPositionSize(account_equity, stock_price)


\* The metrics of a ledger of one ticker, with up to MaxMetricTrades trades
\* at a gain, a loss or nothing, and up to MaxMetricPoints equity points
\* taken with or without the ticker's price
MaxMetricTrades == 2
MaxMetricPoints == 2
MetricConfigs ==
    { [BacktestConfig(Dollars(3000)) EXCEPT !.slippage_pct = <<0, 1>>,
                                            !.commission_per_trade = c,
                                            !.daily_loss_limit = Dollars(1000)] :
        c \in {0, Dollars(1)} }
MetricExits == {Dollars(90), Dollars(100), Dollars(110)}
MetricSnapshots == {NoTickers, [k \in {"AAPL"} |-> Dollars(100)]}

MetricsStep ==
    \/ OpenPosition("AAPL", 1, Dollars(100), 6, Dollars(90), Dollars(110))
    \/ \E price \in MetricExits :
          ClosePositionWithin(MaxMetricTrades, "AAPL", 2, price, "Take Profit")
    \/ \E prices \in MetricSnapshots :
          RecordEquityWithin(MaxMetricPoints, 3, prices)
    \/ GetPerformanceMetrics

InitMetrics ==
    \E config \in MetricConfigs :
        /\ rm = RiskManagerInit
        /\ rm_call = NoCall
        /\ rm_obs = ObsInit
        /\ bt = BacktestEngineInit(config)
        /\ bt_call = NoBtCall
        /\ bt_obs = BtObsInit(config)
        /\ st = TradingStrategyInit
        /\ st_call = NoStCall

SpecMetrics == InitMetrics /\ [][MetricsStep]_vars
SpecSizing == Init /\ [][SizingStep]_vars

\* Bars around every threshold of the entry rules.  An indicator is a
\* number, NaN, or Absent (its column is not in the row).
Absent == <<0, 0>>
Row(close, volume, sma_50, rsi, volume_ma, atr) ==
    LET columns == [ close |-> <<close>>, volume |-> <<volume>>, sma_50 |-> sma_50,
                     rsi |-> rsi, volume_ma |-> volume_ma, atr |-> atr ]
    IN  [k \in {c \in DOMAIN columns : columns[c] # Absent} |-> columns[k]]

EntryCloses  == {Cents(20) - 1, Cents(20), Cents(150), Cents(500), Cents(500) + 1}
EntryVolumes == {1199, 1200}
EntrySmas    == {Absent, NaN, <<Cents(149)>>, <<Cents(150)>>}
EntryRsis    == {Absent, NaN, <<39>>, <<40>>, <<70>>, <<71>>}
EntryVolumeMas == {Absent, NaN, <<1000>>}
EntryAtrs    == {Absent, NaN, <<49>>, <<50>>}
EntryBars ==
    { Row(close, volume, sma_50, rsi, volume_ma, atr) :
        close \in EntryCloses, volume \in EntryVolumes, sma_50 \in EntrySmas,
        rsi \in EntryRsis, volume_ma \in EntryVolumeMas, atr \in EntryAtrs }

\* 9:59, 10:00, 15:00 and 15:01 Eastern as naive timestamps; 9:59 and 10:00
\* Eastern as UTC timestamps
EntryTimes ==
    {[tz |-> "naive", minute |-> m] : m \in {599, 600, 900, 901}}
        \cup {[tz |-> "UTC", minute |-> m] : m \in {899, 900}}

EntryStep == CheckEntryConditions

\* one call of check_entry_conditions on a bar and a timestamp
InitEntry ==
    \E current_data \in EntryBars, timestamp \in EntryTimes :
        /\ rm = RiskManagerInit
        /\ rm_call = NoCall
        /\ rm_obs = ObsInit
        /\ bt = BacktestEngineInit(BacktestConfig(Dollars(10000)))
        /\ bt_call = NoBtCall
        /\ bt_obs = BtObsInit(BacktestConfig(Dollars(10000)))
        /\ st = TradingStrategyInit
        /\ st_call = [NoStCall EXCEPT !.args = <<"AAPL", current_data, timestamp>>]

SpecEntry == InitEntry /\ [][EntryStep]_vars

\* Positions entered at 100.00 and 150.00, and prices around the stop-loss
\* (-1%), the trailing trigger (+1%) and the take-profit (+1.5%) of each
ExitEntries == {Cents(100), Cents(150)}
ExitPrices ==
    {9900, 10100, 10101, 10149, 10150,
     14850, 14851, 15000, 15124, 15150, 15151, 15160, 15224, 15225}
ExitHighs == {NoPrice, <<10200>>, <<15200>>, <<15236>>, <<15300>>}

\* 14:00, 15:54 and 15:55 Eastern as naive timestamps; 15:54 and 15:55
\* Eastern as UTC timestamps
ExitTimes ==
    {[tz |-> "naive", minute |-> m] : m \in {840, 954, 955}}
        \cup {[tz |-> "UTC", minute |-> m] : m \in {1254, 1255}}

ExitStep == CheckExitConditions

\* one call of check_exit_conditions
InitExit ==
    \E entry_price \in ExitEntries, current_price \in ExitPrices,
       timestamp \in ExitTimes, highest_price \in ExitHighs :
        /\ rm = RiskManagerInit
        /\ rm_call = NoCall
        /\ rm_obs = ObsInit
        /\ bt = BacktestEngineInit(BacktestConfig(Dollars(10000)))
        /\ bt_call = NoBtCall
        /\ bt_obs = BtObsInit(BacktestConfig(Dollars(10000)))
        /\ st = TradingStrategyInit
        /\ st_call = [NoStCall EXCEPT !.args =
                         << [ticker |-> "AAPL", entry_price |-> entry_price, quantity |-> 10],
                            current_price, timestamp, highest_price >>]

SpecExit == InitExit /\ [][ExitStep]_vars

\* Frames of up to MaxBars bars: a bar that meets the entry conditions at a
\* close of 150.00 or 151.00, one whose oscillator is NaN, one after the
\* trading window
MaxBars == 2
Bar(close, rsi, minute) ==
    Row(close, 1200, <<Cents(148)>>, rsi, <<1000>>, <<150>>)
        @@ ("timestamp" :> <<[tz |-> "naive", minute |-> minute]>>)
SignalBars ==
    { Bar(Cents(150), <<55>>, 660), Bar(Cents(151), <<55>>, 660),
      Bar(Cents(150), NaN, 660), Bar(Cents(150), <<55>>, 901) }
SignalFrames == UNION {[1..n -> SignalBars] : n \in 0..MaxBars}

\* current_positions of up to MaxHeld elements, of every shape
MaxHeld == 2
HeldShapes == {"str", "dict", "object"}
HeldPositions ==
    [shape : HeldShapes, ticker : {"AAPL", "MSFT"}]
        \cup [shape : {"dict", "object"}, ticker : {None}]
HeldLists == UNION {[1..n -> HeldPositions] : n \in 0..MaxHeld}

SignalStep == GenerateSignals

\* one call of generate_signals
InitSignal ==
    \E df \in SignalFrames, current_positions \in HeldLists :
        /\ rm = RiskManagerInit
        /\ rm_call = NoCall
        /\ rm_obs = ObsInit
        /\ bt = BacktestEngineInit(BacktestConfig(Dollars(10000)))
        /\ bt_call = NoBtCall
        /\ bt_obs = BtObsInit(BacktestConfig(Dollars(10000)))
        /\ st = TradingStrategyInit
        /\ st_call = [NoStCall EXCEPT !.args = <<"AAPL", df, current_positions>>]

SpecSignal == InitSignal /\ [][SignalStep]_vars

---------------------------------------------------------------------------
(* The arguments of validate_trade that the properties range over *)

\* on the gate's dates and a week after the first of them
TradeArgs ==
    [ ticker : Tickers, price : Prices, quantity : Quantities, equity : Equities,
      positions : Counts, ts : GateTimes \cup {WeekDays * SlotsPerDay} ]

\* on the clock's timestamps
ClockArgs ==
    [ ticker : Tickers, price : Prices, quantity : Quantities, equity : Equities,
      positions : Counts, ts : ClockTimes ]

Validate(s, a) ==
    validate_trade(s, a.ticker, a.price, a.quantity, a.equity, a.positions, a.ts)

IsValidate == rm_call.op = "validate_trade"
IsUpdate   == rm_call.op = "update_pnl"

---------------------------------------------------------------------------
(* C1: Circuit breaker latches.  From a state with trading_halted set, a  *)
(* validate_trade call with any arguments returns (False, "Trading        *)
(* halted: " + the stored halt reason), and every call other than         *)
(* resume_trading, update_pnl included, leaves the breaker and its reason *)
(* as they are.  The stored reason is that of the check that tripped it.  *)
C1_BreakerLatches ==
    /\ [](rm.trading_halted =>
            /\ rm.halt_reason \in {"Daily loss limit exceeded", "Max drawdown exceeded"}
            /\ \A a \in TradeArgs :
                  /\ Validate(rm, a).raised = None
                  /\ Validate(rm, a).ret = <<FALSE, "Trading halted: " \o rm.halt_reason>>)
    /\ [][ rm.trading_halted =>
              /\ rm_call'.op = "validate_trade" =>
                    rm_call'.ret = <<FALSE, "Trading halted: " \o rm.halt_reason>>
              /\ rm_call'.op # "resume_trading" =>
                    rm'.trading_halted /\ rm'.halt_reason = rm.halt_reason
          ]_vars

\* a halted call is rejected although the loss that tripped the breaker is gone
C1_Witness ==
    /\ IsValidate /\ rm_call.halted_before /\ rm.trading_halted
    /\ rm_call.ret = <<FALSE, "Trading halted: Daily loss limit exceeded">>
    /\ rm.daily_pnl = 0

(* C2: A validate_trade call made while Active sets trading_halted if and *)
(* only if it returns the daily-loss or the max-drawdown rejection; every *)
(* other rejection and every approval leaves it false.  trading_halted    *)
(* becomes true only in validate_trade and false only in resume_trading.  *)
C2_HaltTransitions ==
    [][ /\ (rm_call'.op = "validate_trade" /\ ~rm.trading_halted) =>
              (rm'.trading_halted <=>
                  rm_call'.ret \in { <<FALSE, "Daily loss limit exceeded">>,
                                     <<FALSE, "Max drawdown exceeded">> })
        /\ (~rm.trading_halted /\ rm'.trading_halted) => rm_call'.op = "validate_trade"
        /\ (rm.trading_halted /\ ~rm'.trading_halted) => rm_call'.op = "resume_trading"
      ]_vars

\* a weekly rejection that left the gate Active
C2_Witness ==
    /\ IsValidate /\ ~rm_call.halted_before /\ ~rm.trading_halted
    /\ rm_call.ret = <<FALSE, "Weekly loss limit exceeded - review required">>

\* the trackers as validate_trade updates them before its checks
Tracked(s, a) ==
    update_drawdown(reset_weekly_pnl(reset_daily_pnl(s, a.ts), a.ts), a.equity)

\* checks (3) to (8) on tracked state s: <<fails, reason, trips the breaker>>
ChecksInOrder(s, a) ==
    << << Abs(s.daily_pnl) >= daily_loss_limit, "Daily loss limit exceeded", TRUE >>,
       << Abs(s.weekly_pnl) >= weekly_loss_limit,
          "Weekly loss limit exceeded - review required", FALSE >>,
       << s.current_drawdown_pct[1] >= max_drawdown_pct * s.current_drawdown_pct[2],
          "Max drawdown exceeded", TRUE >>,
       << a.positions >= max_positions, "Position limits exceeded", FALSE >>,
       << a.price * a.quantity > max_position_size,
          SizeText(a.price * a.quantity), FALSE >>,
       << a.price * a.quantity > a.equity, "Insufficient capital", FALSE >> >>

Fails(c) == c[1]
Failing(s, a) == SelectSeq(ChecksInOrder(s, a), Fails)

(* C3: validate_trade reports the first failing check of the fixed order: *)
(* when halted, the halt text and no state change; otherwise, on the      *)
(* trackers updated from the timestamp and the equity, the reason of the  *)
(* first failing check among daily, weekly, drawdown, position count,     *)
(* position size, capital, the breaker tripped exactly when that first    *)
(* check is the daily or the drawdown one, and no other effect.           *)
C3_FirstFailureWins ==
    \A a \in TradeArgs :
        LET r == Validate(rm, a) IN
        r.raised = None =>
            IF rm.trading_halted
            THEN r.ret[1] = FALSE /\ r.state = rm
            ELSE LET s == Tracked(rm, a)
                     f == Failing(s, a)
                 IN  IF f = <<>>
                     THEN r.ret = <<TRUE, None>> /\ r.state = s
                     ELSE /\ r.ret = <<FALSE, Head(f)[2]>>
                          /\ r.state = IF Head(f)[3]
                                       THEN [s EXCEPT !.trading_halted = TRUE,
                                                      !.halt_reason = Head(f)[2]]
                                       ELSE s

\* weekly and drawdown breached at once: the weekly reason, and no halt
C3_Witness ==
    /\ IsValidate /\ ~rm_call.halted_before /\ ~rm.trading_halted
    /\ rm_call.ret = <<FALSE, "Weekly loss limit exceeded - review required">>
    /\ rm.current_drawdown_pct[1] >= max_drawdown_pct * rm.current_drawdown_pct[2]

(* C4: whenever validate_trade approves, the breaker was and stays        *)
(* inactive, |daily P&L| < daily limit, |weekly P&L| < weekly limit, the  *)
(* drawdown recomputed from the equity < max_drawdown_pct, the position   *)
(* count < max_positions, and price*quantity exceeds neither              *)
(* max_position_size nor the equity.                                      *)
C4_ApprovalImpliesAllChecks ==
    \A a \in TradeArgs :
        LET r == Validate(rm, a) IN
        (r.raised = None /\ r.ret[1] = TRUE) =>
            /\ r.ret = <<TRUE, None>>
            /\ ~rm.trading_halted /\ ~r.state.trading_halted
            /\ Abs(r.state.daily_pnl) < daily_loss_limit
            /\ Abs(r.state.weekly_pnl) < weekly_loss_limit
            /\ \/ a.equity > rm.peak_equity
               \/ (rm.peak_equity - a.equity) * 100 < max_drawdown_pct * rm.peak_equity
            /\ FracLt(r.state.current_drawdown_pct, max_drawdown_pct)
            /\ a.positions < max_positions
            /\ a.price * a.quantity <= max_position_size
            /\ a.price * a.quantity <= a.equity

C4_Witness ==
    /\ IsValidate /\ rm_call.ret = <<TRUE, None>> /\ ~rm.trading_halted
    /\ rm.weekly_pnl # 0 /\ rm.peak_equity > 0

(* C5: an Active validate_trade returns the daily-loss rejection and      *)
(* trips the breaker exactly when the day's realized P&L is a loss of at  *)
(* least daily_loss_limit; a day at zero or in profit never does.         *)
C5_DailyLossOnlyOnLoss ==
    (IsValidate /\ ~rm_call.halted_before /\ rm_call.raised = None) =>
        ( ( /\ rm_call.ret = <<FALSE, "Daily loss limit exceeded">>
            /\ rm.trading_halted
            /\ rm.halt_reason = "Daily loss limit exceeded" )
          <=> rm.daily_pnl <= -daily_loss_limit )

(* C6: Scenario E.  With daily_loss_limit 100 and losses of 25 recorded   *)
(* on one date, an Active validate_trade on that date is approved while   *)
(* the day's loss is 25, 50 or 75 (the other limits permitting), and is   *)
(* rejected with the daily-loss reason, latching the breaker, when it is  *)
(* exactly 100; from then on validate_trade with any arguments returns    *)
(* the halt text and changes nothing.                                     *)
C6_ScenarioE ==
    /\ (IsValidate /\ ~rm_call.halted_before /\ rm_call.raised = None) =>
          /\ (rm.daily_pnl \in {-25, -50, -75} /\ Abs(rm.weekly_pnl) < weekly_loss_limit)
                => rm_call.ret = <<TRUE, None>> /\ ~rm.trading_halted
          /\ rm.daily_pnl = -100 =>
                /\ rm_call.ret = <<FALSE, "Daily loss limit exceeded">>
                /\ rm.trading_halted
                /\ rm.halt_reason = "Daily loss limit exceeded"
    /\ (rm.trading_halted /\ rm.halt_reason = "Daily loss limit exceeded") =>
          \A a \in ClockArgs :
              /\ Validate(rm, a).ret =
                     <<FALSE, "Trading halted: Daily loss limit exceeded">>
              /\ Validate(rm, a).state = rm

\* the attempt after the fifth loss: the day's loss is 125 and the gate halted
C6_Witness ==
    /\ IsValidate /\ rm_call.halted_before /\ rm.daily_pnl = -125
    /\ rm_call.ret = <<FALSE, "Trading halted: Daily loss limit exceeded">>

\* the call's timestamp is the first seen, or on another calendar date
OnNewDate(s, ts) ==
    s.current_date = NoTime \/ ts \div SlotsPerDay # s.current_date[1] \div SlotsPerDay

\* what the call adds to the P&L trackers
CallPnl(c) == IF c.op = "update_pnl" THEN c.pnl ELSE 0

(* C7 as stated: every update_pnl and every validate_trade call, Active   *)
(* or Halted, whose timestamp is on a new calendar date zeroes daily P&L  *)
(* and stores the timestamp before accumulating; a call on the same date  *)
(* never resets.                                                          *)
C7_ResetOnEveryCall ==
    [][ rm_call'.op \in {"update_pnl", "validate_trade"} =>
          IF OnNewDate(rm, rm_call'.ts)
          THEN /\ rm'.daily_pnl = CallPnl(rm_call')
               /\ rm'.current_date = <<rm_call'.ts>>
          ELSE /\ rm'.daily_pnl = rm.daily_pnl + CallPnl(rm_call')
               /\ rm'.current_date = rm.current_date
      ]_vars

(* C7 amended: the same for every update_pnl call and every validate_trade *)
(* call made while Active; a validate_trade call made while Halted changes *)
(* nothing, whatever the date of its timestamp.                            *)
C7_ResetOnObservingCall ==
    [][ /\ (\/ rm_call'.op = "update_pnl"
            \/ rm_call'.op = "validate_trade" /\ ~rm.trading_halted) =>
              IF OnNewDate(rm, rm_call'.ts)
              THEN /\ rm'.daily_pnl = CallPnl(rm_call')
                   /\ rm'.current_date = <<rm_call'.ts>>
              ELSE /\ rm'.daily_pnl = rm.daily_pnl + CallPnl(rm_call')
                   /\ rm'.current_date = rm.current_date
        /\ (rm_call'.op = "validate_trade" /\ rm.trading_halted) => rm' = rm
      ]_vars

\* update_pnl on a new date: the day starts from the call's own P&L
C7_Witness ==
    /\ IsUpdate /\ rm.current_date = <<rm_call.ts>>
    /\ rm.daily_pnl = rm_call.pnl /\ rm.weekly_pnl = 3 * rm_call.pnl

(* C8: the first timestamp seen becomes the week start without a reset;   *)
(* a later update_pnl or Active validate_trade zeroes weekly P&L and      *)
(* moves the week start to its timestamp exactly when that timestamp is   *)
(* 7 or more whole days after the stored week start.  While timestamps    *)
(* never decrease, after such a call the timestamp is at or after the     *)
(* week start and less than 7 days after it, and all P&L summed in weekly *)
(* P&L was recorded within that window.                                   *)
C8_WeeklyWindow ==
    /\ [][ (\/ rm_call'.op = "update_pnl"
            \/ rm_call'.op = "validate_trade" /\ ~rm.trading_halted) =>
              IF rm.week_start_date = NoTime
              THEN /\ rm'.week_start_date = <<rm_call'.ts>>
                   /\ rm'.weekly_pnl = rm.weekly_pnl + CallPnl(rm_call')
                   /\ rm.weekly_pnl = 0
              ELSE IF rm_call'.ts - rm.week_start_date[1] >= 7 * SlotsPerDay
              THEN /\ rm'.week_start_date = <<rm_call'.ts>>
                   /\ rm'.weekly_pnl = CallPnl(rm_call')
              ELSE /\ rm'.week_start_date = rm.week_start_date
                   /\ rm'.weekly_pnl = rm.weekly_pnl + CallPnl(rm_call')
          ]_vars
    /\ []( ( /\ rm_obs.monotone
             /\ IsUpdate \/ (IsValidate /\ ~rm_call.halted_before) ) =>
              /\ rm.week_start_date[1] <= rm_call.ts
              /\ rm_call.ts - rm.week_start_date[1] < 7 * SlotsPerDay )
    /\ []( IF rm_obs.week_first = NoTime
           THEN rm.weekly_pnl = 0
           ELSE rm_obs.monotone =>
                  /\ rm.week_start_date[1] <= rm_obs.week_first[1]
                  /\ rm_obs.week_last[1] - rm.week_start_date[1] < 7 * SlotsPerDay )

\* a loss recorded 7 or more days after the week start begins a new week
C8_Witness ==
    /\ IsUpdate /\ rm_call.weekly_reset /\ rm_obs.monotone
    /\ rm.weekly_pnl = rm_call.pnl /\ rm.daily_pnl = rm_call.pnl
    /\ rm.week_start_date = <<rm_call.ts>>

\* drawdown d, a fraction, is (peak - e)/peak*100
IsDrawdownOf(d, peak, e) ==
    LET n == (peak - e) * 100
        g == GCD(Abs(n), peak)
    IN  d = <<n \div g, peak \div g>>

(* C9: in the Risk Gate (update_drawdown, as validate_trade calls it) and *)
(* in the Portfolio (record_equity), a completed update with equity e     *)
(* above the stored peak sets peak = e and drawdown = 0, and any other    *)
(* completed update leaves the peak and sets drawdown =                   *)
(* (peak - e)/peak*100; in every reachable state drawdown >= 0 and the    *)
(* peak is at least every equity shown so far; the peak never decreases.  *)
C9_DrawdownTracking ==
    /\ []( \A e \in Equities :
             LET r == validate_trade(rm, "AAPL", 100, 1, e, 0, 0) IN
             (~rm.trading_halted /\ r.raised = None) =>
                 IF e > rm.peak_equity
                 THEN /\ r.state.peak_equity = e
                      /\ r.state.current_drawdown_pct = <<0, 1>>
                 ELSE /\ r.state.peak_equity = rm.peak_equity
                      /\ IsDrawdownOf(r.state.current_drawdown_pct, rm.peak_equity, e) )
    /\ [][ (bt_call'.op = "record_equity" /\ bt_call'.raised = None) =>
              LET point == bt'.equity_curve[Len(bt'.equity_curve)]
                  e == point.equity
              IN  /\ Len(bt'.equity_curve) = Len(bt.equity_curve) + 1
                  /\ point.drawdown = bt'.current_drawdown
                  /\ IF e > bt.peak_equity
                     THEN bt'.peak_equity = e /\ bt'.current_drawdown = <<0, 1>>
                     ELSE /\ bt'.peak_equity = bt.peak_equity
                          /\ IsDrawdownOf(bt'.current_drawdown, bt.peak_equity, e)
          ]_vars
    /\ []( /\ rm.current_drawdown_pct[1] >= 0 /\ rm.current_drawdown_pct[2] > 0
           /\ bt.current_drawdown[1] >= 0 /\ bt.current_drawdown[2] > 0 )
    /\ []( /\ rm_obs.max_equity # <<>> => rm.peak_equity >= rm_obs.max_equity[1]
           /\ bt.peak_equity >= bt_obs.max_equity )
    /\ [][ rm'.peak_equity >= rm.peak_equity /\ bt'.peak_equity >= bt.peak_equity ]_vars

\* the gate saw 2000 and then 850: the peak stays 2000, the drawdown is 57.5%
C9_Witness ==
    /\ IsValidate /\ ~rm_call.halted_before /\ rm_call.raised = None
    /\ rm_obs.max_equity = <<2000>>
    /\ rm.peak_equity = 2000 /\ rm.current_drawdown_pct = <<115, 2>>

(* C10: no call of validate_trade, update_pnl, open_position,             *)
(* close_position, update_positions or record_equity ends in an           *)
(* exception, whatever its inputs and from every reachable state, a       *)
(* freshly constructed RiskManager and a Portfolio of starting capital 0  *)
(* included.                                                              *)
C10_NoException ==
    rm_call.raised = None /\ bt_call.raised = None

---------------------------------------------------------------------------
(* The arguments of open_position and close_position that the properties  *)
(* range over: more than the ledger's own calls use.                      *)

OpenArgs ==
    [ ticker : LedgerTickers, price : {Dollars(0)} \cup LedgerPrices, quantity : {0, 6, 20} ]

CloseArgs ==
    [ ticker : LedgerTickers, price : BtPrices \cup LedgerPrices ]

Open(b, a) ==
    open_position(b, a.ticker, 1, a.price, a.quantity, Dollars(90), Dollars(110))

Close(b, a) ==
    close_position(b, a.ticker, 2, a.price, "Take Profit")

IsOpen  == bt_call.op = "open_position"
IsClose == bt_call.op = "close_position"

\* the dict of positions without the position of ticker
Without(positions, ticker) ==
    [k \in DOMAIN positions \ {ticker} |-> positions[k]]

(* C11: the open positions are one per ticker: each is stored under its   *)
(* own ticker, the open tickers are exactly those opened and not yet      *)
(* closed, and from every reachable state an open_position for a ticker   *)
(* that is open returns false and leaves the positions as they are.       *)
C11_OnePositionPerTicker ==
    /\ \A k \in DOMAIN bt.positions : bt.positions[k].ticker = k
    /\ DOMAIN bt.positions = DOMAIN bt_obs.seen
    /\ \A a \in OpenArgs :
          LET r == Open(bt, a) IN
          /\ a.ticker \in DOMAIN bt.positions =>
                r.ret = <<FALSE>> /\ r.state.positions = bt.positions
          /\ Without(r.state.positions, a.ticker) = Without(bt.positions, a.ticker)
          /\ \A k \in DOMAIN r.state.positions : r.state.positions[k].ticker = k

\* both tickers are open, and a second open_position of one was refused
C11_Witness ==
    /\ IsOpen /\ bt_call.ret = <<FALSE>>
    /\ bt_call.ticker \in DOMAIN bt.positions
    /\ Cardinality(DOMAIN bt.positions) = 2

\* price * (1 + slippage_pct/100), the fill price of an entry at price
EntryFill(b, price) ==
    price + (price * b.config.slippage_pct[1]) \div (b.config.slippage_pct[2] * 100)

\* fill price * quantity + commission
EntryCost(b, a) ==
    EntryFill(b, a.price) * a.quantity + b.config.commission_per_trade

\* the four conditions of can_open_position
MayOpen(b) ==
    /\ Cardinality(DOMAIN b.positions) < b.config.max_positions
    /\ b.capital >= b.config.max_position_size
    /\ Abs(b.daily_pnl) < b.config.daily_loss_limit
    /\ b.current_drawdown[1] < b.config.max_drawdown_pct * b.current_drawdown[2]

(* C12: from every reachable state, an open_position that fails, because  *)
(* the ticker has a position, because can_open_position() is false or     *)
(* because fill price * quantity + commission exceeds cash, returns false *)
(* and leaves the whole engine state (cash, positions, trades, equity     *)
(* curve, daily P&L, peak, drawdown, counters) identical.                 *)
C12_FailedOpenChangesNothing ==
    \A a \in OpenArgs :
        LET r == Open(bt, a) IN
        /\ ( \/ a.ticker \in DOMAIN bt.positions
             \/ ~MayOpen(bt)
             \/ EntryCost(bt, a) > bt.capital ) => r.ret = <<FALSE>>
        /\ r.ret = <<FALSE>> => r.state = bt

\* refused for its cost alone, a position of the other ticker being open
C12_Witness ==
    /\ IsOpen /\ bt_call.ret = <<FALSE>>
    /\ bt_call.ticker \notin DOMAIN bt.positions
    /\ MayOpen(bt)
    /\ Cardinality(DOMAIN bt.positions) = 1
    /\ bt.capital < bt.starting_capital

(* C13: from every reachable state, open_position returns true exactly    *)
(* when a Position for the ticker exists afterwards that did not before;  *)
(* that Position has entry price price*(1 + slippage_pct/100), the given  *)
(* quantity and highest price equal to the entry price, and cash is lower *)
(* by exactly entry price * quantity + commission_per_trade; cash changes *)
(* only together with the creation, and nothing else changes.             *)
C13_OpenIsAtomic ==
    \A a \in OpenArgs :
        LET r == Open(bt, a)
            created == /\ a.ticker \notin DOMAIN bt.positions
                       /\ a.ticker \in DOMAIN r.state.positions
        IN
        /\ r.raised = None
        /\ r.ret \in {<<TRUE>>, <<FALSE>>}
        /\ r.ret = <<TRUE>> <=> created
        /\ r.state.capital # bt.capital => created
        /\ created =>
              LET position == r.state.positions[a.ticker] IN
              /\ position.ticker = a.ticker
              /\ position.entry_time = 1
              /\ position.entry_price * 100 * bt.config.slippage_pct[2]
                    = a.price * (100 * bt.config.slippage_pct[2] + bt.config.slippage_pct[1])
              /\ position.quantity = a.quantity
              /\ position.highest_price = position.entry_price
              /\ position.stop_loss = Dollars(90) /\ position.take_profit = Dollars(110)
              /\ r.state.capital
                    = bt.capital - (position.entry_price * a.quantity
                                      + bt.config.commission_per_trade)
              /\ r.state = [bt EXCEPT !.capital = r.state.capital,
                                      !.positions = r.state.positions]

\* the first position of an engine that charges a commission
C13_Witness ==
    /\ IsOpen /\ bt_call.ret = <<TRUE>>
    /\ DOMAIN bt.positions = {bt_call.ticker}
    /\ bt.config.commission_per_trade > 0
    /\ bt.positions[bt_call.ticker].highest_price = bt.positions[bt_call.ticker].entry_price
    /\ bt.capital = bt.starting_capital
                      - (bt.positions[bt_call.ticker].entry_price * 6
                           + bt.config.commission_per_trade)

\* price * (1 - slippage_pct/100), the fill price of an exit at price
ExitFill(b, price) ==
    price - (price * b.config.slippage_pct[1]) \div (b.config.slippage_pct[2] * 100)

\* what the open positions cost: the sum of entry price * quantity + commission
RECURSIVE OpenCost(_, _)
OpenCost(b, tickers) ==
    IF tickers = {} THEN 0
    ELSE LET k == CHOOSE x \in tickers : TRUE
         IN  b.positions[k].entry_price * b.positions[k].quantity
                + b.config.commission_per_trade
                + OpenCost(b, tickers \ {k})

\* the cash of the round trips made: for each Trade,
\* -(entry price * quantity + commission) + (exit price * quantity - commission)
RECURSIVE TradeCash(_, _)
TradeCash(b, n) ==
    IF n = 0 THEN 0
    ELSE - (b.trades[n].entry_price * b.trades[n].quantity + b.config.commission_per_trade)
         + (b.trades[n].exit_price * b.trades[n].quantity - b.config.commission_per_trade)
         + TradeCash(b, n - 1)

(* C14: conservation.  In every reachable state cash is the starting      *)
(* capital, less entry fill * quantity + commission for each open         *)
(* position, plus -(entry fill * quantity + commission) + (exit fill *    *)
(* quantity - commission) for each round trip made, whatever updates,     *)
(* records and trades of other tickers came in between; and closing a     *)
(* position, no other ticker having been opened or closed since its open, *)
(* leaves cash = cash before the open - entry cost + exit proceeds.       *)
C14_Conservation ==
    /\ bt.capital = bt.starting_capital - OpenCost(bt, DOMAIN bt.positions)
                       + TradeCash(bt, Len(bt.trades))
    /\ \A a \in CloseArgs :
          (a.ticker \in DOMAIN bt.positions /\ ~close_position_raises(bt, a.ticker)) =>
              LET r == Close(bt, a)
                  position == bt.positions[a.ticker]
                  entry_cost == position.entry_price * position.quantity
                                   + bt.config.commission_per_trade
                  exit_proceeds == ExitFill(bt, a.price) * position.quantity
                                      - bt.config.commission_per_trade
              IN  /\ r.state.capital = bt.capital + exit_proceeds
                  /\ bt_obs.cash_before[a.ticker] # <<>> =>
                        r.state.capital
                           = bt_obs.cash_before[a.ticker][1] - entry_cost + exit_proceeds

\* a round trip at a loss with a record_equity in between, commission charged
C14_Witness ==
    /\ IsClose /\ Len(bt.trades) = 1 /\ DOMAIN bt.positions = {}
    /\ Len(bt.equity_curve) = 1 /\ bt.equity_curve[1].num_positions = 1
    /\ bt.config.commission_per_trade > 0
    /\ bt.trades[1].exit_price < bt.trades[1].entry_price
    /\ bt.capital = bt.starting_capital
                      - (bt.trades[1].entry_price * 6 + bt.config.commission_per_trade)
                      + (bt.trades[1].exit_price * 6 - bt.config.commission_per_trade)

\* the dict current_prices without the tickers that have no open position
OnlyOpen(b, current_prices) ==
    [k \in DOMAIN current_prices \cap DOMAIN b.positions |-> current_prices[k]]

(* C15: from every reachable state, close_position on a ticker with no    *)
(* open position returns None and leaves the whole engine state as it is; *)
(* update_positions does what it would do without the prices of tickers   *)
(* that have no open position, and opens no position for them.            *)
C15_MissingPositionIgnored ==
    /\ \A a \in CloseArgs :
          a.ticker \notin DOMAIN bt.positions =>
              /\ ~close_position_raises(bt, a.ticker)
              /\ Close(bt, a).ret = <<None>>
              /\ Close(bt, a).state = bt
    /\ \A prices \in LedgerPriceDicts :
          LET b == update_positions(bt, prices, 3) IN
          /\ b = update_positions(bt, OnlyOpen(bt, prices), 3)
          /\ DOMAIN b.positions = DOMAIN bt.positions
          /\ DOMAIN prices \cap DOMAIN bt.positions = {} => b = bt

\* a close of a ticker without a position, the other ticker's being open
C15_Witness ==
    /\ IsClose /\ ~bt_call.closed /\ bt_call.raised = None
    /\ bt_call.ret = <<None>> /\ bt.total_trades = 0
    /\ bt_call.ticker \notin DOMAIN bt.positions
    /\ Cardinality(DOMAIN bt.positions) = 1

(* C16: from every reachable state a close_position of an open ticker     *)
(* appends exactly one Trade, with the Position's ticker, entry time,     *)
(* entry price and quantity, returns it, and removes the Position; a      *)
(* close of the same ticker straight after returns None and appends       *)
(* nothing; every call leaves the Trades already in the list as they are  *)
(* and appends at most one; the Trades and the open positions together    *)
(* are as many as the open_position calls that returned True.             *)
C16_TradeExactlyOnce ==
    /\ []( \A a \in CloseArgs :
              (a.ticker \in DOMAIN bt.positions /\ ~close_position_raises(bt, a.ticker)) =>
                  LET r == Close(bt, a)
                      position == bt.positions[a.ticker]
                      trade == r.state.trades[Len(r.state.trades)]
                  IN  /\ r.state.trades = Append(bt.trades, trade)
                      /\ r.ret = <<trade>>
                      /\ trade.ticker = a.ticker
                      /\ trade.entry_time = position.entry_time
                      /\ trade.exit_time = 2
                      /\ trade.entry_price = position.entry_price
                      /\ trade.quantity = position.quantity
                      /\ r.state.positions = Without(bt.positions, a.ticker)
                      /\ \A again \in CloseArgs :
                            again.ticker = a.ticker =>
                                /\ Close(r.state, again).ret = <<None>>
                                /\ Close(r.state, again).state = r.state )
    /\ []( Len(bt.trades) + Cardinality(DOMAIN bt.positions) = bt_obs.opened )
    /\ [][ /\ Len(bt'.trades) \in {Len(bt.trades), Len(bt.trades) + 1}
           /\ \A i \in 1..Len(bt.trades) : bt'.trades[i] = bt.trades[i]
           /\ Len(bt'.trades) = Len(bt.trades) + 1 <=>
                 ( /\ bt_call'.op = "close_position"
                   /\ bt_call'.ticker \in DOMAIN bt.positions
                   /\ bt_call'.ticker \notin DOMAIN bt'.positions )
           /\ bt_call'.op # "close_position" =>
                 DOMAIN bt.positions \subseteq DOMAIN bt'.positions
         ]_vars

\* the position was closed into the one Trade, and a second close returned None
C16_Witness ==
    /\ IsClose /\ bt_call.raised = None /\ ~bt_call.closed
    /\ bt_call.ret = <<None>>
    /\ Len(bt.trades) = 1 /\ bt.trades[1].ticker = bt_call.ticker
    /\ bt.trades[1].entry_time = 1 /\ bt.trades[1].exit_time = 2
    /\ DOMAIN bt.positions = {}
    /\ bt_obs.opened = 1

(* C17: from every reachable state a close_position of an open ticker     *)
(* realizes net P&L = (exit fill - entry price) * quantity - commission,  *)
(* records it in the Trade and adds it to daily P&L, and adds one to      *)
(* total_trades and to exactly one of winning_trades (net P&L > 0) and    *)
(* losing_trades (net P&L <= 0, zero included); the two counters always   *)
(* add up to total_trades, the length of the trade list.                  *)
C17_WinLossBySign ==
    /\ bt.winning_trades + bt.losing_trades = bt.total_trades
    /\ bt.total_trades = Len(bt.trades)
    /\ \A a \in CloseArgs :
          (a.ticker \in DOMAIN bt.positions /\ ~close_position_raises(bt, a.ticker)) =>
              LET r == Close(bt, a)
                  position == bt.positions[a.ticker]
                  net == (ExitFill(bt, a.price) - position.entry_price) * position.quantity
                            - bt.config.commission_per_trade
              IN  /\ r.ret[1].pnl = net
                  /\ r.state.daily_pnl = bt.daily_pnl + net
                  /\ r.state.total_trades = bt.total_trades + 1
                  /\ IF net > 0
                     THEN /\ r.state.winning_trades = bt.winning_trades + 1
                          /\ r.state.losing_trades = bt.losing_trades
                     ELSE /\ r.state.winning_trades = bt.winning_trades
                          /\ r.state.losing_trades = bt.losing_trades + 1

\* bought and sold at the same price, no slippage, no commission: a loss
C17_Witness ==
    /\ IsClose /\ bt_call.closed
    /\ bt.config.commission_per_trade = 0 /\ bt.config.slippage_pct[1] = 0
    /\ bt.trades[1].exit_price = bt.trades[1].entry_price
    /\ bt.trades[1].pnl = 0
    /\ bt.losing_trades = 1 /\ bt.winning_trades = 0 /\ bt.total_trades = 1

\* the dicts of prices that the properties of update_positions range over
UpdateDicts == UNION {[S -> BtPrices \cup LedgerPrices] : S \in SUBSET LedgerTickers}

(* C18: for every open Position, highest_price is the largest of its      *)
(* post-slippage entry price and the prices update_positions was given    *)
(* for its ticker since it was opened, hence at least the entry price;    *)
(* update_positions with any prices (lower, missing, repeated) sets it to *)
(* the larger of its value and the ticker's price; no call lowers the     *)
(* highest_price of a position that stays open.                           *)
C18_HighestPriceMonotonic ==
    /\ []( \A k \in DOMAIN bt.positions :
              /\ bt.positions[k].highest_price = bt_obs.seen[k]
              /\ bt.positions[k].highest_price >= bt.positions[k].entry_price )
    /\ []( \A prices \in UpdateDicts : \A k \in DOMAIN bt.positions :
              LET before == bt.positions[k].highest_price
                  after == update_positions(bt, prices, 3).positions[k].highest_price
              IN  /\ after >= before
                  /\ after = IF k \in DOMAIN prices /\ prices[k] > before
                             THEN prices[k] ELSE before )
    /\ [][ \A k \in DOMAIN bt.positions \cap DOMAIN bt'.positions :
              bt'.positions[k].highest_price >= bt.positions[k].highest_price ]_vars

\* the price rose above the entry price and update_positions was called again
C18_Witness ==
    /\ bt_call.op = "update_positions"
    /\ \E k \in DOMAIN bt.positions :
          /\ bt.positions[k].entry_price < Dollars(200)
          /\ bt.positions[k].highest_price = Dollars(200)
    /\ \E k \in DOMAIN bt.positions :
          bt.positions[k].highest_price = bt.positions[k].entry_price

\* a position without its highest_price
Terms(position) ==
    [ f \in DOMAIN position \ {"highest_price"} |-> position[f] ]

(* C19: from every reachable state and for every dict of prices,          *)
(* update_positions leaves cash, the set of open tickers, every           *)
(* position's fields other than highest_price, the trades, the equity     *)
(* curve, daily P&L, peak equity, drawdown and the counters as they were, *)
(* and a position without a supplied price keeps its highest_price; the   *)
(* call itself changes nothing else either.                               *)
C19_UpdateChangesOnlyHighest ==
    /\ \A prices \in UpdateDicts :
          LET after == update_positions(bt, prices, 3)
          IN  /\ [after EXCEPT !.positions = bt.positions] = bt
              /\ DOMAIN after.positions = DOMAIN bt.positions
              /\ \A k \in DOMAIN bt.positions :
                    /\ Terms(after.positions[k]) = Terms(bt.positions[k])
                    /\ k \notin DOMAIN prices => after.positions[k] = bt.positions[k]
    /\ bt_call.op = "update_positions" => bt_call = [NoBtCall EXCEPT !.op = "update_positions"]

\* two positions are open and only one of them got a higher price
C19_Witness ==
    /\ bt_call.op = "update_positions"
    /\ Cardinality(DOMAIN bt.positions) = 2
    /\ \E k \in DOMAIN bt.positions :
          bt.positions[k].highest_price > bt.positions[k].entry_price
    /\ \E k \in DOMAIN bt.positions :
          /\ bt.positions[k].entry_price < Dollars(200)
          /\ bt.positions[k].highest_price = bt.positions[k].entry_price

\* the conditions of can_open_position that fail in b, by number
FailedConditions(b) ==
    {i \in 1..4 :
        \/ i = 1 /\ ~(Cardinality(DOMAIN b.positions) < b.config.max_positions)
        \/ i = 2 /\ ~(b.capital >= b.config.max_position_size)
        \/ i = 3 /\ ~(Abs(b.daily_pnl) < b.config.daily_loss_limit)
        \/ i = 4 /\ ~(b.current_drawdown[1] < b.config.max_drawdown_pct * b.current_drawdown[2])}

\* the requests of OpenArgs that the ledger's steps make
LedgerRequests ==
    {a \in OpenArgs : a.price \in LedgerPrices /\ a.quantity \in LedgerQuantities}

\* the largest total cost an open_position of the ledger asks for
MaxCost(b) ==
    CHOOSE c \in {EntryCost(b, a) : a \in LedgerRequests} :
        \A a \in LedgerRequests : EntryCost(b, a) <= c

(* C20: in every reachable state can_open_position() is true exactly when *)
(* none of its four conditions fails (count < max_positions, cash >=      *)
(* max_position_size, |daily P&L| < daily_loss_limit, drawdown <          *)
(* max_drawdown_pct), and no open_position, whatever it asks for and      *)
(* however affordable, succeeds where one of them fails.                  *)
C20_CanOpenIsFourConditions ==
    /\ can_open_position(bt) <=> FailedConditions(bt) = {}
    /\ \A a \in OpenArgs :
          FailedConditions(bt) # {} =>
              /\ Open(bt, a).ret = <<FALSE>>
              /\ Open(bt, a).state = bt
    /\ (bt_call.op = "open_position" /\ bt_call.ret = <<TRUE>>) =>
          Cardinality(DOMAIN bt.positions) <= bt.config.max_positions

\* an open_position for a new ticker was refused although cash covers any
\* cost asked for and only the daily P&L condition fails, on a profit
C20_Witness ==
    /\ bt_call.op = "open_position"
    /\ bt_call.ret = <<FALSE>>
    /\ bt_call.ticker \notin DOMAIN bt.positions
    /\ bt.capital >= MaxCost(bt)
    /\ FailedConditions(bt) = {3}
    /\ bt.daily_pnl > 0

\* what the open position of ticker k adds to the position value
Contribution(b, current_prices, k) ==
    IF k \in DOMAIN b.positions /\ k \in DOMAIN current_prices
    THEN current_prices[k] * b.positions[k].quantity
    ELSE 0

(* C21: from every reachable state and for every dict of prices, a        *)
(* record_equity that returns appends one point after the earlier points  *)
(* and changes nothing else but peak equity and drawdown; the point's     *)
(* position value is the sum of price * quantity over the open positions  *)
(* that have a price, its equity is cash plus that, its cash and its      *)
(* number of positions are the ledger's, its drawdown is the ledger's     *)
(* after the call; and no step of any operation changes, removes or       *)
(* reorders a point already in the curve.                                 *)
C21_OnePointPerRecord ==
    /\ []( \A prices \in UpdateDicts :
              ~record_equity_raises(bt, prices) =>
                  LET after == record_equity(bt, 3, prices)
                      n     == Len(bt.equity_curve)
                      point == after.equity_curve[n + 1]
                      value == Contribution(bt, prices, "AAPL") + Contribution(bt, prices, "MSFT")
                  IN  /\ Len(after.equity_curve) = n + 1
                      /\ SubSeq(after.equity_curve, 1, n) = bt.equity_curve
                      /\ [after EXCEPT !.equity_curve = bt.equity_curve,
                                       !.peak_equity = bt.peak_equity,
                                       !.current_drawdown = bt.current_drawdown] = bt
                      /\ point.timestamp = 3
                      /\ point.position_value = value
                      /\ point.equity = bt.capital + value
                      /\ point.capital = bt.capital
                      /\ point.num_positions = Cardinality(DOMAIN bt.positions)
                      /\ point.drawdown = after.current_drawdown )
    /\ [][ /\ Len(bt'.equity_curve) =
                 Len(bt.equity_curve)
                    + (IF bt_call'.op = "record_equity" /\ bt_call'.raised = None THEN 1 ELSE 0)
           /\ SubSeq(bt'.equity_curve, 1, Len(bt.equity_curve)) = bt.equity_curve ]_vars

\* record_equity was called without prices while a position was open: the
\* point counts the position and values it at zero
C21_Witness ==
    /\ bt_call.op = "record_equity"
    /\ bt_call.raised = None
    /\ Len(bt.equity_curve) >= 1
    /\ LET point == bt.equity_curve[Len(bt.equity_curve)]
       IN  /\ point.num_positions >= 1
           /\ point.position_value = 0
           /\ point.equity = bt.capital
           /\ point.drawdown = bt.current_drawdown
           /\ point.drawdown[1] > 0

(* C22: in every reachable state every open Position has quantity > 0 and *)
(* entry_price > 0, and an open_position with quantity <= 0 or price <= 0 *)
(* is rejected and creates no Position.                                   *)
C22_PositionInvariant ==
    /\ \A k \in DOMAIN bt.positions :
          /\ bt.positions[k].quantity > 0
          /\ bt.positions[k].entry_price > 0
    /\ \A a \in OpenArgs :
          (a.quantity <= 0 \/ a.price <= 0) =>
              /\ Open(bt, a).ret = <<FALSE>>
              /\ Open(bt, a).state.positions = bt.positions

\* floor(min(max_position_size, 20% of equity) / price), for a price above 0
FloorShares(equity, price) ==
    IF equity >= 5 * max_position_size
    THEN max_position_size \div price
    ELSE equity \div (5 * price)

(* C23: both calculate_position_size functions return                     *)
(* floor(min(max_position_size, 20% of equity) / price), raised to 1 only *)
(* when that is 0 and price <= equity: so 0 when price > equity, and      *)
(* shares * price never exceeds the equity; no state of the strategy or   *)
(* the risk manager changes.                                              *)
C23_SizingIsPure ==
    /\ (st_call.op = "calculate_position_size" /\ st_call.raised = None) =>
          LET equity == st_call.args[1]
              price  == st_call.args[2]
              shares == st_call.ret[1]
          IN  /\ shares = IF FloorShares(equity, price) = 0 /\ price <= equity
                          THEN 1 ELSE FloorShares(equity, price)
              /\ price > equity => shares = 0
              /\ shares * price <= equity
    /\ st = TradingStrategyInit
    /\ rm = RiskManagerInit

\* the number behind a column that is available
Value(current_data, column) == current_data[column][1]

\* the six entry conditions, by their place in the order
EntryCondition(s, i, current_data, timestamp) ==
    LET price == Value(current_data, "close") IN
    CASE i = 1 -> s.min_stock_price <= price /\ price <= s.max_stock_price
      [] i = 2 -> /\ EasternTime(timestamp) >= s.trading_start
                  /\ EasternTime(timestamp) <= s.trading_end
      [] i = 3 -> /\ ~NotAvailable(current_data, "sma_50")
                  /\ price > Value(current_data, "sma_50")
      [] i = 4 -> /\ ~NotAvailable(current_data, "rsi")
                  /\ Value(current_data, "rsi") \in s.rsi_lower .. s.rsi_upper
      [] i = 5 -> /\ ~NotAvailable(current_data, "volume_ma")
                  /\ Value(current_data, "volume") * s.volume_multiplier[2]
                        >= s.volume_multiplier[1] * Value(current_data, "volume_ma")
      [] i = 6 -> /\ ~NotAvailable(current_data, "atr")
                  /\ Value(current_data, "atr") >= s.min_atr

\* the reasons that name a condition, and the indicator of a condition
EntryReasons(i) ==
    CASE i = 1 -> {"below minimum", "above maximum"}
      [] i = 2 -> {"Outside trading hours"}
      [] i = 3 -> {"SMA not available", "not above SMA"}
      [] i = 4 -> {"RSI not available", "RSI outside range"}
      [] i = 5 -> {"Volume MA not available", "Volume ratio below"}
      [] i = 6 -> {"ATR not available", "ATR below minimum"}

IndicatorOf(i) ==
    CASE i = 3 -> "sma_50" [] i = 4 -> "rsi" [] i = 5 -> "volume_ma" [] i = 6 -> "atr"

NotAvailableReasons ==
    {"SMA not available", "RSI not available", "Volume MA not available", "ATR not available"}

FracLe(f, g) == f[1] * g[2] <= g[1] * f[2]
FracLess(f, g) == f[1] * g[2] < g[1] * f[2]
FracNeg(f) == <<-f[1], f[2]>>

\* the arguments of the check_exit_conditions call, and what they come to
ExitEntry == st_call.args[1].entry_price
ExitPrice == st_call.args[2]
ExitTime  == st_call.args[3]
ExitHigh  == st_call.args[4]
\* P&L percent relative to entry
PnlPct == Pct(ExitPrice - ExitEntry, ExitEntry)
\* percent of the current price relative to the highest price
FromHighPct == Pct(ExitPrice - ExitHigh[1], ExitHigh[1])

StopLossMatches   == FracLe(PnlPct, FracNeg(TradingStrategyInit.stop_loss_pct))
TakeProfitMatches == FracLe(TradingStrategyInit.take_profit_pct, PnlPct)
TimeStopMatches   == EasternTime(ExitTime) >= TradingStrategyInit.position_close_time
TrailingArmed ==
    ExitHigh # NoPrice /\ FracLess(TradingStrategyInit.trailing_stop_trigger_pct, PnlPct)
TrailingStopMatches ==
    TrailingArmed /\ FracLe(FromHighPct, FracNeg(TradingStrategyInit.trailing_stop_pct))

IsExit == st_call.op = "check_exit_conditions"

(* C25: check_exit_conditions reports the reason of the first rule that   *)
(* matches in the order stop-loss, take-profit, time stop, trailing stop, *)
(* and (False, None) when none matches: Stop Loss when stop-loss and time *)
(* stop both match, Take Profit when take-profit and time stop both       *)
(* match, Time Stop when time stop and trailing stop both match and the   *)
(* take-profit, which comes before them, does not.                        *)
C25_ExitPriority ==
    IsExit =>
        /\ st_call.raised = None
        /\ st_call.ret =
              IF StopLossMatches THEN <<TRUE, "Stop Loss">>
              ELSE IF TakeProfitMatches THEN <<TRUE, "Take Profit">>
              ELSE IF TimeStopMatches THEN <<TRUE, "Time Stop">>
              ELSE IF TrailingStopMatches THEN <<TRUE, "Trailing Stop">>
              ELSE <<FALSE, None>>
        /\ (StopLossMatches /\ TimeStopMatches) => st_call.ret[2] = "Stop Loss"
        /\ (TakeProfitMatches /\ TimeStopMatches) => st_call.ret[2] = "Take Profit"
        /\ (TimeStopMatches /\ TrailingStopMatches /\ ~TakeProfitMatches)
              => st_call.ret[2] = "Time Stop"

\* the time stop and the trailing stop both match, at 15:55 Eastern given in UTC
C25_Witness ==
    /\ IsExit
    /\ TimeStopMatches
    /\ TrailingStopMatches
    /\ ~TakeProfitMatches
    /\ ExitTime.tz = "UTC"
    /\ st_call.ret = <<TRUE, "Time Stop">>

(* C26: the stop-loss and take-profit boundaries are inclusive: the exit  *)
(* is Stop Loss whenever P&L percent <= -stop_loss_pct (entry 150.00,     *)
(* price 148.50: exactly -1.0%), Take Profit whenever it is >=            *)
(* take_profit_pct (entry 150.00, price 152.25: exactly +1.5%), and       *)
(* neither when it is strictly between the two.                           *)
C26_InclusiveBoundaries ==
    IsExit =>
        /\ FracLe(PnlPct, <<-1, 1>>) <=> st_call.ret = <<TRUE, "Stop Loss">>
        /\ FracLe(<<3, 2>>, PnlPct) <=> st_call.ret = <<TRUE, "Take Profit">>
        /\ (ExitEntry = Cents(150) /\ ExitPrice = 14850) =>
              /\ PnlPct = <<-1, 1>>
              /\ st_call.ret = <<TRUE, "Stop Loss">>
        /\ (ExitEntry = Cents(150) /\ ExitPrice = 15225) =>
              /\ PnlPct = <<3, 2>>
              /\ st_call.ret = <<TRUE, "Take Profit">>
        /\ (FracLess(<<-1, 1>>, PnlPct) /\ FracLess(PnlPct, <<3, 2>>)) =>
              st_call.ret[2] \notin {"Stop Loss", "Take Profit"}

\* scenario D at 14:00: exactly +1.5% exits with Take Profit
C26_Witness ==
    /\ IsExit
    /\ ExitEntry = Cents(150)
    /\ ExitPrice = 15225
    /\ ExitTime = [tz |-> "naive", minute |-> 840]
    /\ ExitHigh = NoPrice
    /\ st_call.ret = <<TRUE, "Take Profit">>

C28_TrailingStopTest ==
    ( /\ IsExit
      /\ ExitHigh # NoPrice
      /\ ~StopLossMatches /\ ~TakeProfitMatches /\ ~TimeStopMatches
      /\ FracLess(<<1, 1>>, Pct(ExitHigh[1] - ExitEntry, ExitEntry))
      /\ FracLe(FromHighPct, <<-1, 2>>) )
        => st_call.ret = <<TRUE, "Trailing Stop">>

\* the arguments of the generate_signals call
SignalTicker == st_call.args[1]
SignalFrame  == st_call.args[2]
SignalHeld   == st_call.args[3]

\* the tickers that current_positions carries, whatever the shapes
HeldTickers(current_positions) ==
    {current_positions[i].ticker : i \in 1..Len(current_positions)}

\* current_positions with every element put in one shape
Reshaped(current_positions, shape) ==
    [i \in 1..Len(current_positions) |-> [current_positions[i] EXCEPT !.shape = shape]]

\* current_positions without the positions of other tickers
RECURSIVE OnlyOf(_, _)
OnlyOf(current_positions, ticker) ==
    IF current_positions = <<>> THEN <<>>
    ELSE LET rest == OnlyOf(Tail(current_positions), ticker)
         IN  IF Head(current_positions).ticker = ticker
             THEN <<Head(current_positions)>> \o rest
             ELSE rest

IsSignal == st_call.op = "generate_signals"

(* C29: generate_signals returns at most one signal, a 'buy' for the      *)
(* ticker at the latest bar's close and timestamp, and exactly when the   *)
(* frame is not empty, the ticker is not in current_positions and the     *)
(* latest bar meets the entry conditions; it returns none when the ticker *)
(* is in current_positions; the result is the same with the positions in  *)
(* any of the three shapes, and with the positions of other tickers       *)
(* removed; the strategy's fields are unchanged.                          *)
C29_OneEntrySignal ==
    IsSignal =>
        LET held   == SignalTicker \in HeldTickers(SignalHeld)
            latest == SignalFrame[Len(SignalFrame)]
            enter  == /\ SignalFrame # <<>>
                      /\ \A i \in 1..6 :
                            EntryCondition(TradingStrategyInit, i, latest, latest["timestamp"][1])
        IN  /\ st_call.raised = None
            /\ st = TradingStrategyInit
            /\ Len(st_call.ret) <= 1
            /\ held => st_call.ret = <<>>
            /\ Len(st_call.ret) = 1 <=> (~held /\ enter)
            /\ Len(st_call.ret) = 1 =>
                  /\ st_call.ret[1].signal_type = "buy"
                  /\ st_call.ret[1].ticker = SignalTicker
                  /\ st_call.ret[1].price = latest["close"][1]
                  /\ st_call.ret[1].timestamp = latest["timestamp"][1]
            /\ \A shape \in HeldShapes :
                  generate_signals(st, SignalTicker, SignalFrame, Reshaped(SignalHeld, shape)).ret
                      = st_call.ret
            /\ generate_signals(st, SignalTicker, SignalFrame, OnlyOf(SignalHeld, SignalTicker)).ret
                  = st_call.ret

\* the latest of two bars meets the entry conditions, the earlier one has a
\* different close; the ticker is held as an object next to another
\* ticker's string: no signal
C29_Witness ==
    /\ IsSignal
    /\ Len(SignalFrame) = 2
    /\ SignalFrame[1]["close"] # SignalFrame[2]["close"]
    /\ \A i \in 1..6 :
          EntryCondition(TradingStrategyInit, i, SignalFrame[2], SignalFrame[2]["timestamp"][1])
    /\ SignalHeld = << [shape |-> "str", ticker |-> "MSFT"],
                       [shape |-> "object", ticker |-> "AAPL"] >>
    /\ st_call.ret = <<>>

\* the sum of the positive P&L of the first n trades, and of the negative
\* P&L as amounts
RECURSIVE WonIn(_, _)
WonIn(trades, n) ==
    IF n = 0 THEN 0
    ELSE WonIn(trades, n - 1) + (IF trades[n].pnl > 0 THEN trades[n].pnl ELSE 0)

RECURSIVE LostIn(_, _)
LostIn(trades, n) ==
    IF n = 0 THEN 0
    ELSE LostIn(trades, n - 1) + (IF trades[n].pnl < 0 THEN -trades[n].pnl ELSE 0)

IsMetrics == bt_call.op = "get_performance_metrics" /\ bt_call.raised = None

(* C30: get_performance_metrics changes no field of the ledger; with no   *)
(* trades it returns total return 0, total trades 0, win rate 0, profit   *)
(* factor 0; otherwise win rate = winning_trades / total_trades * 100,    *)
(* profit factor = sum of winning P&L / sum of |losing P&L|, and 0 when   *)
(* no trade has a negative P&L, and max drawdown is the largest drawdown  *)
(* of the points of the equity curve.                                     *)
C30_MetricsArePure ==
    /\ []( ~get_performance_metrics_raises(bt) => get_performance_metrics(bt).state = bt )
    /\ [][ bt_call'.op = "get_performance_metrics" => (bt' = bt /\ bt_obs' = bt_obs) ]_vars
    /\ []( (IsMetrics /\ bt.trades = <<>>) =>
              LET m == bt_call.ret[1]
              IN  /\ m.total_return = <<0, 1>>
                  /\ m.total_trades = 0
                  /\ m.win_rate = <<0, 1>>
                  /\ m.profit_factor = <<0, 1>> )
    /\ []( (IsMetrics /\ bt.trades # <<>>) =>
              LET m    == bt_call.ret[1]
                  won  == WonIn(bt.trades, Len(bt.trades))
                  lost == LostIn(bt.trades, Len(bt.trades))
                  curve == bt.equity_curve
              IN  /\ m.total_trades = bt.total_trades
                  /\ m.win_rate[2] > 0
                  /\ m.win_rate[1] * bt.total_trades = 100 * bt.winning_trades * m.win_rate[2]
                  /\ m.profit_factor[2] > 0
                  /\ lost = 0 => m.profit_factor = <<0, 1>>
                  /\ lost > 0 => m.profit_factor[1] * lost = won * m.profit_factor[2]
                  /\ curve = <<>> => m.max_drawdown = <<0, 1>>
                  /\ curve # <<>> =>
                        /\ \E i \in 1..Len(curve) : curve[i].drawdown = m.max_drawdown
                        /\ \A i \in 1..Len(curve) : FracLe(curve[i].drawdown, m.max_drawdown) )

\* metrics of two winning trades and no losing one, on a curve whose first
\* point has the larger drawdown
C30_Witness ==
    /\ IsMetrics
    /\ Len(bt.trades) = 2
    /\ \A i \in 1..2 : bt.trades[i].pnl > 0
    /\ bt_call.ret[1].profit_factor = <<0, 1>>
    /\ bt_call.ret[1].win_rate = <<100, 1>>
    /\ Len(bt.equity_curve) = 2
    /\ FracLess(bt.equity_curve[2].drawdown, bt.equity_curve[1].drawdown)
    /\ bt_call.ret[1].max_drawdown = bt.equity_curve[1].drawdown

---------------------------------------------------------------------------
(* C31: the number of open positions never exceeds max_positions: after   *)
(* any sequence of open_position and close_position calls on any tickers  *)
(* the open-position set has at most config.max_positions members, and    *)
(* every recorded equity point counts at most max_positions positions.    *)
C31_PositionsWithinMax ==
    /\ Cardinality(DOMAIN bt.positions) <= bt.config.max_positions
    /\ \A i \in 1..Len(bt.equity_curve) :
          bt.equity_curve[i].num_positions <= bt.config.max_positions

\* the position set is full, an equity point recorded it full, and an
\* open_position for another ticker has just been refused
C31_Witness ==
    /\ bt_call.op = "open_position"
    /\ bt_call.ret = <<FALSE>>
    /\ bt_call.ticker \notin DOMAIN bt.positions
    /\ Cardinality(DOMAIN bt.positions) = bt.config.max_positions
    /\ bt.capital >= bt.config.max_position_size
    /\ \E i \in 1..Len(bt.equity_curve) :
          bt.equity_curve[i].num_positions = bt.config.max_positions

---------------------------------------------------------------------------
\* how many of the trades have (won) or have not a P&L above zero
Winners(trades) == Cardinality({i \in 1..Len(trades) : trades[i].pnl > 0})
Losers(trades) == Cardinality({i \in 1..Len(trades) : trades[i].pnl <= 0})

(* C32: the ledger counters stay consistent: in every reachable state     *)
(* total_trades is the length of the trade list and is winning_trades +   *)
(* losing_trades, winning_trades is the number of trades with a P&L above *)
(* zero and losing_trades the number of trades with a P&L of zero or less.*)
C32_CountersConsistent ==
    /\ bt.total_trades = Len(bt.trades)
    /\ bt.total_trades = bt.winning_trades + bt.losing_trades
    /\ bt.winning_trades = Winners(bt.trades)
    /\ bt.losing_trades = Losers(bt.trades)

\* two trades are recorded, a winner and one that closed flat
C32_Witness ==
    /\ bt.total_trades = 2
    /\ bt.winning_trades = 1
    /\ \E i \in 1..Len(bt.trades) : bt.trades[i].pnl = 0

---------------------------------------------------------------------------
(* The ledger over several days: the engine without slippage or           *)
(* commission and a daily loss limit of 100 dollars, two tickers opened   *)
(* at 100 dollars and closed 20 dollars below, at, or above that, at      *)
(* timestamps (slots of SlotsPerDay to a calendar date) that never run    *)
(* back behind the last entry or exit.                                    *)
MaxDailyTime == 2
MaxDailyTrades == 2
DailyTimes == 0..MaxDailyTime
DailyExits == {Dollars(80), Dollars(100), Dollars(120)}
DailyConfig == [BacktestConfig(Dollars(3000)) EXCEPT !.slippage_pct = <<0, 1>>]

\* the latest entry or exit time in the ledger
LastTime(b) ==
    MaxOf(<<0>> \o [i \in 1..Len(b.trades) |-> b.trades[i].exit_time]
               \o [i \in 1..Cardinality(DOMAIN b.positions) |->
                      LET held == CHOOSE f \in [1..Cardinality(DOMAIN b.positions)
                                                  -> DOMAIN b.positions] :
                                      \A j, k \in DOMAIN f : j # k => f[j] # f[k]
                      IN  b.positions[held[i]].entry_time])

DailyStep ==
    \/ \E ticker \in LedgerTickers, timestamp \in DailyTimes :
          /\ timestamp >= LastTime(bt)
          /\ OpenPosition(ticker, timestamp, Dollars(100), 6, Dollars(90), Dollars(110))
    \/ \E ticker \in LedgerTickers, timestamp \in DailyTimes, price \in DailyExits :
          /\ timestamp >= LastTime(bt)
          /\ ClosePositionWithin(MaxDailyTrades, ticker, timestamp, price, "Stop Loss")

InitDaily ==
    /\ rm = RiskManagerInit
    /\ rm_call = NoCall
    /\ rm_obs = ObsInit
    /\ bt = BacktestEngineInit(DailyConfig)
    /\ bt_call = NoBtCall
    /\ bt_obs = BtObsInit(DailyConfig)
    /\ st = TradingStrategyInit
    /\ st_call = NoStCall

SpecDaily == InitDaily /\ [][DailyStep]_vars

\* the sum of the net P&L of the trades
SumPnl(trades) == SumOf([i \in 1..Len(trades) |-> trades[i].pnl])

(* C33: the engine's daily P&L is never reset by a date change: in every  *)
(* reachable state daily_pnl is the sum of the net P&L of all trades in   *)
(* the trade list, whatever their dates; so while the absolute value of   *)
(* that sum is at or over daily_loss_limit, can_open_position() is false  *)
(* and an open_position on any later day is refused, until further closes *)
(* bring the sum back inside the limit.                                   *)
C33_DailyPnlIsCumulative ==
    /\ bt.daily_pnl = SumPnl(bt.trades)
    /\ Abs(SumPnl(bt.trades)) >= bt.config.daily_loss_limit => ~can_open_position(bt)
    /\ (bt_call.op = "open_position"
            /\ Abs(SumPnl(bt.trades)) >= bt.config.daily_loss_limit)
       => bt_call.ret = <<FALSE>>

\* a loss of 120 dollars was closed on one date, and an open_position on a
\* later date, with the ticker free, a slot free and cash enough, was refused
C33_Witness ==
    /\ bt_call.op = "open_position"
    /\ bt_call.ret = <<FALSE>>
    /\ bt_call.ticker \notin DOMAIN bt.positions
    /\ Cardinality(DOMAIN bt.positions) < bt.config.max_positions
    /\ bt.capital >= bt.config.max_position_size
    /\ bt.daily_pnl = -Dollars(120)
    /\ \A i \in 1..Len(bt.trades) :
          DateOf(bt.trades[i].exit_time) < DateOf(TheTime(bt_call.timestamp))

---------------------------------------------------------------------------
(* C34: cash and realized P&L reconcile up to the entry commissions: in   *)
(* every reachable state with no open position, cash - starting_capital   *)
(* is the sum of the trades' P&L less commission_per_trade for each       *)
(* trade, the entry commission being taken from cash at the open without  *)
(* being part of the trade's P&L; with a commission of 0, cash is the     *)
(* starting capital plus the sum of the trades' P&L.                      *)
C34_CashReconciles ==
    DOMAIN bt.positions = {} =>
        /\ bt.capital - bt.starting_capital =
              SumPnl(bt.trades) - Len(bt.trades) * bt.config.commission_per_trade
        /\ bt.config.commission_per_trade = 0 =>
              bt.capital = bt.starting_capital + SumPnl(bt.trades)

\* no position is open after two trades that paid commissions and did not
\* cancel out
C34_Witness ==
    /\ DOMAIN bt.positions = {}
    /\ Len(bt.trades) = 2
    /\ bt.config.commission_per_trade > 0
    /\ SumPnl(bt.trades) # 0
    /\ bt.capital # bt.starting_capital + SumPnl(bt.trades)

---------------------------------------------------------------------------
(* Cash: the engine with a starting capital of 1000 dollars, no slippage  *)
(* and a commission of one dollar; positive prices and quantities only,   *)
(* from a nickel to 100 dollars a share.                                  *)
MaxCashTrades == 2
Nickel == UnitsPerDollar \div 20
CashConfig == [BacktestConfig(Dollars(1000)) EXCEPT !.slippage_pct = <<0, 1>>,
                                                    !.commission_per_trade = Dollars(1)]
CashEntries == {Dollars(50), Dollars(100) - 2 * Nickel}
CashExits == {Nickel, Dollars(50), Dollars(100)}
CashQuantities == {1, 10}

CashStep ==
    \/ \E ticker \in LedgerTickers, price \in CashEntries, quantity \in CashQuantities :
          OpenPosition(ticker, 1, price, quantity, Dollars(40), Dollars(110))
    \/ \E ticker \in LedgerTickers, price \in CashExits :
          ClosePositionWithin(MaxCashTrades, ticker, 2, price, "Stop Loss")

InitCash ==
    /\ rm = RiskManagerInit
    /\ rm_call = NoCall
    /\ rm_obs = ObsInit
    /\ bt = BacktestEngineInit(CashConfig)
    /\ bt_call = NoBtCall
    /\ bt_obs = BtObsInit(CashConfig)
    /\ st = TradingStrategyInit
    /\ st_call = NoStCall

SpecCash == InitCash /\ [][CashStep]_vars

---------------------------------------------------------------------------
\* the breach that tripped the breaker is still there for a call with
\* arguments a on state s: the daily P&L on the stored date, or the equity's
\* drawdown from the stored peak
DailyBreach(s, a) ==
    /\ s.current_date # NoTime
    /\ DateOf(a.ts) = DateOf(TheTime(s.current_date))
    /\ Abs(s.daily_pnl) >= daily_loss_limit
DrawdownBreach(s, a) ==
    /\ s.current_date # NoTime
    /\ DateOf(a.ts) = DateOf(TheTime(s.current_date))
    /\ s.peak_equity > 0
    /\ a.equity <= s.peak_equity
    /\ (s.peak_equity - a.equity) * 100 >= max_drawdown_pct * s.peak_equity

\* the weekly P&L is at its limit once validate_trade has run its trackers
WeeklyBreach(s, a) == check_weekly_loss_limit(reset_weekly_pnl(s, a.ts))

\* the breach named by halt reason is still there in state s for arguments a
BreachPresent(reason, s, a) ==
    \/ reason = DailyText /\ DailyBreach(s, a)
    \/ reason = DrawdownText /\ DrawdownBreach(s, a)

\* resume_trading sets trading_halted to false and halt_reason to None and
\* leaves every tracker as it is
ResumeFrame ==
    [][ rm_call'.op = "resume_trading" =>
          /\ ~rm'.trading_halted /\ rm'.halt_reason = None
          /\ rm'.daily_pnl = rm.daily_pnl
          /\ rm'.weekly_pnl = rm.weekly_pnl
          /\ rm'.current_date = rm.current_date
          /\ rm'.week_start_date = rm.week_start_date
          /\ rm'.peak_equity = rm.peak_equity
          /\ rm'.current_drawdown_pct = rm.current_drawdown_pct
      ]_vars

(* C36 as stated: resume_trading changes only the breaker: it sets        *)
(* trading_halted to false and halt_reason to None and leaves daily P&L,  *)
(* weekly P&L, the stored current date and week start, peak equity and    *)
(* drawdown as they are; so a validate_trade made right after it, on the  *)
(* same date and with the breach still present, rejects and trips the     *)
(* breaker again.  In every reachable state halt_reason is None exactly   *)
(* when trading_halted is false.                                          *)
C36_ResumeChangesOnlyBreaker ==
    /\ ResumeFrame
    /\ [][ (rm_call'.op = "resume_trading" /\ rm.trading_halted) =>
              \A a \in TradeArgs :
                  BreachPresent(rm.halt_reason, rm', a) =>
                      /\ Validate(rm', a).raised = None
                      /\ Validate(rm', a).ret[1] = FALSE
                      /\ Validate(rm', a).state.trading_halted
          ]_vars
    /\ [](rm.halt_reason = None <=> ~rm.trading_halted)

(* C36 amended: the same, but the validate_trade made right after         *)
(* resume_trading trips the breaker again only when the check of the      *)
(* breach is reached: always for a daily breach, and for a drawdown       *)
(* breach when neither the daily nor the weekly limit is hit.  With the   *)
(* drawdown still in breach and the weekly P&L at its limit (from         *)
(* update_pnl calls made during the halt) the call returns the weekly     *)
(* rejection and leaves the breaker off.                                  *)
C36_ResumeRetripsWhenCheckIsReached ==
    /\ ResumeFrame
    /\ [][ (rm_call'.op = "resume_trading" /\ rm.trading_halted) =>
              \A a \in TradeArgs :
                  BreachPresent(rm.halt_reason, rm', a) =>
                      /\ Validate(rm', a).raised = None
                      /\ Validate(rm', a).ret[1] = FALSE
                      /\ Validate(rm', a).state.trading_halted
                            <=> (DailyBreach(rm', a) \/ ~WeeklyBreach(rm', a))
                      /\ ~Validate(rm', a).state.trading_halted
                            => Validate(rm', a).ret = <<FALSE, WeeklyText>>
          ]_vars
    /\ [](rm.halt_reason = None <=> ~rm.trading_halted)

\* resume_trading has just lifted a halt; the drawdown is still in breach,
\* the daily P&L is within its limit and the weekly P&L is at its limit
C36_Witness ==
    /\ rm_call.op = "resume_trading"
    /\ rm_call.halted_before
    /\ ~rm.trading_halted
    /\ FracGe(rm.current_drawdown_pct, max_drawdown_pct)
    /\ \E a \in TradeArgs :
          DrawdownBreach(rm, a) /\ ~DailyBreach(rm, a) /\ WeeklyBreach(rm, a)

---------------------------------------------------------------------------
(* The replay loop of examples/simple_backtest.py (run_simple_backtest).  *)
(* all_data is a dict from tickers to frames; a frame is the sequence of  *)
(* its rows in the order of their timestamps.  The rows carry prices in   *)
(* cents; the engine is given the same prices in its own units.           *)

EnginePrice(close) == close * (UnitsPerDollar \div 100)

\* the example's BacktestConfig
ExampleConfig == [BacktestConfig(Dollars(10000)) EXCEPT !.max_positions = 3]

\* test_tickers: the order in which all_data was filled
test_tickers == <<"AAPL", "MSFT">>

\* the timestamp of a row; the timestamps of one replay share a time zone
TimestampOf(row) == row["timestamp"][1]

\* sorted(all_timestamps)
RECURSIVE SortedTimestamps(_)
SortedTimestamps(all_timestamps) ==
    IF all_timestamps = {} THEN <<>>
    ELSE LET first == CHOOSE t \in all_timestamps :
                          \A u \in all_timestamps : t.minute <= u.minute
         IN  <<first>> \o SortedTimestamps(all_timestamps \ {first})

timestamps_of(all_data) ==
    SortedTimestamps(UNION { { TimestampOf(all_data[k][i]) : i \in 1..Len(all_data[k]) } :
                                k \in DOMAIN all_data })

\* df[df['timestamp'] == timestamp] and df[df['timestamp'] <= timestamp]
RowsAt(df, timestamp) ==
    SelectSeq(df, LAMBDA row : TimestampOf(row) = timestamp)
RowsUntil(df, timestamp) ==
    SelectSeq(df, LAMBDA row : TimestampOf(row).minute <= timestamp.minute)

\* current_prices: the close of every ticker that has a row at timestamp
current_prices_at(all_data, timestamp) ==
    [k \in {x \in DOMAIN all_data : RowsAt(all_data[x], timestamp) # <<>>} |->
        EnginePrice(RowsAt(all_data[k], timestamp)[1]["close"][1])]

\* the exit checks, over the tickers that were open when the loop began
RECURSIVE check_exits(_, _, _, _, _)
check_exits(b, s, tickers, current_prices, timestamp) ==
    IF tickers = <<>> THEN b
    ELSE LET ticker == Head(tickers)
             rest == Tail(tickers)
         IN  IF ticker \notin DOMAIN b.positions \/ ticker \notin DOMAIN current_prices
             THEN check_exits(b, s, rest, current_prices, timestamp)
             ELSE LET position == b.positions[ticker]
                      current_price == current_prices[ticker]
                      r == check_exit_conditions(
                               s, [entry_price |-> position.entry_price, ticker |-> ticker],
                               current_price, timestamp, <<position.highest_price>>)
                  IN  IF r.ret[1]
                      THEN check_exits(
                               close_position(b, ticker, timestamp, current_price,
                                              r.ret[2]).state,
                               s, rest, current_prices, timestamp)
                      ELSE check_exits(b, s, rest, current_prices, timestamp)

\* list(backtest.positions.keys()), as the strings generate_signals is given
RECURSIVE KeysOf(_, _)
KeysOf(b, tickers) ==
    IF tickers = <<>> THEN <<>>
    ELSE (IF Head(tickers) \in DOMAIN b.positions
          THEN << [shape |-> "str", ticker |-> Head(tickers)] >> ELSE <<>>)
         \o KeysOf(b, Tail(tickers))

\* the entries, over all_data in its order
RECURSIVE generate_entries(_, _, _, _, _)
generate_entries(b, s, tickers, all_data, timestamp) ==
    IF tickers = <<>> THEN b
    ELSE LET ticker == Head(tickers)
             rest == Tail(tickers)
         IN  IF \/ ticker \notin DOMAIN all_data
                \/ ticker \in DOMAIN b.positions
                \/ ~can_open_position(b)
                \/ RowsUntil(all_data[ticker], timestamp) = <<>>
             THEN generate_entries(b, s, rest, all_data, timestamp)
             ELSE LET signals == generate_signals(
                                     s, ticker, RowsUntil(all_data[ticker], timestamp),
                                     KeysOf(b, test_tickers)).ret
                  IN  IF signals = <<>>
                      THEN generate_entries(b, s, rest, all_data, timestamp)
                      ELSE LET price == EnginePrice(signals[1].price)
                               quantity == calculate_position_size(
                                               s, b.capital, price, Dollars(1000)).ret[1]
                           IN  generate_entries(
                                   open_position(b, ticker, timestamp, price, quantity,
                                                 get_stop_loss_price(s, price),
                                                 get_take_profit_price(s, price)).state,
                                   s, rest, all_data, timestamp)

\* one pass of the loop body
replay_step(b, s, all_data, timestamp) ==
    LET current_prices == current_prices_at(all_data, timestamp)
        b1 == update_positions(b, current_prices, timestamp)
        b2 == check_exits(b1, s, test_tickers, current_prices, timestamp)
        b3 == generate_entries(b2, s, test_tickers, all_data, timestamp)
    IN  record_equity(b3, timestamp, current_prices)

\* The loop of run_simple_backtest over the data the initial state holds;
\* its position is the number of equity points recorded so far.
ReplayStep ==
    /\ st_call.op = "run_simple_backtest"
    /\ LET all_data == st_call.args[1]
           timestamps == timestamps_of(all_data)
       IN  /\ Len(bt.equity_curve) < Len(timestamps)
           /\ bt' = replay_step(bt, st, all_data, timestamps[Len(bt.equity_curve) + 1])
    /\ bt_call' = [NoBtCall EXCEPT !.op = "record_equity"]
    /\ UNCHANGED <<bt_obs, rm_vars, st_vars>>

\* Replays of MaxReplaySteps timestamps of one day, naive or UTC.  AAPL has
\* a bar that meets the entry conditions at each of them, closing at a
\* price around 200 dollars: 1% under, at, and 0.5%, 1.5% and 2.5% over.
\* MSFT has no data, or such a bar at the first timestamp only.
MaxReplaySteps == 3
ReplayMinutes == {10 * 60, 11 * 60, 12 * 60, 15 * 60 + 55, 15 * 60 + 56}
ReplayCloses == {Cents(198), Cents(200), Cents(201), Cents(203), Cents(205)}
ReplayClocks ==
    { clock \in [1..MaxReplaySteps -> ReplayMinutes] :
          \A i, j \in 1..MaxReplaySteps : i < j => clock[i] < clock[j] }
ReplayZones == {"naive", "UTC"}
ReplayTimestamp(zone, minute) ==
    [tz |-> zone, minute |-> IF zone = "naive" THEN minute ELSE minute + EasternOffset]
ReplayBar(close, timestamp) ==
    Row(close, 1200, <<Cents(148)>>, <<55>>, <<1000>>, <<150>>)
        @@ ("timestamp" :> <<timestamp>>)

ReplayData ==
    { LET aapl == [i \in 1..MaxReplaySteps |->
                      ReplayBar(closes[i], ReplayTimestamp(zone, clock[i]))]
          msft == << ReplayBar(Cents(200), ReplayTimestamp(zone, clock[1])) >>
      IN  IF both THEN [k \in {"AAPL", "MSFT"} |-> IF k = "AAPL" THEN aapl ELSE msft]
          ELSE [k \in {"AAPL"} |-> aapl] :
        closes \in [1..MaxReplaySteps -> ReplayCloses], clock \in ReplayClocks,
        zone \in ReplayZones, both \in BOOLEAN }

InitReplay ==
    \E all_data \in ReplayData :
        /\ rm = RiskManagerInit
        /\ rm_call = NoCall
        /\ rm_obs = ObsInit
        /\ bt = BacktestEngineInit(ExampleConfig)
        /\ bt_call = NoBtCall
        /\ bt_obs = BtObsInit(ExampleConfig)
        /\ st = TradingStrategyInit
        /\ st_call = [NoStCall EXCEPT !.op = "run_simple_backtest",
                                      !.args = <<all_data>>]

SpecReplay == InitReplay /\ [][ReplayStep]_vars

\* every price to the cent from 1% to 2% over the entry price of a position:
\* the gains at which the trailing rule can be armed and beyond
NextPrices(position) ==
    { EnginePrice(c) : c \in ((position.entry_price * 101) \div EnginePrice(100))
                                ..((position.entry_price * 102) \div EnginePrice(100)) }

---------------------------------------------------------------------------
\* the timestamp of the step that has just ended, and the tickers that had
\* a current price in it
LastStep == bt.equity_curve[Len(bt.equity_curve)].timestamp
PricedInLastStep == DOMAIN current_prices_at(st_call.args[1], LastStep)

(* C38: end-of-day flattening in the replay loop: at the end of every     *)
(* step whose timestamp is at or after position_close_time (15:55 in the  *)
(* trading time zone) no position remains open for any ticker that had a *)
(* current price in that step: every such position was closed in the     *)
(* step, by the time stop unless the stop loss or take profit came        *)
(* first, and no entry was made, the entry window ending at 15:00.        *)
C38_FlatAfterCloseTime ==
    (bt.equity_curve # <<>> /\ EasternTime(LastStep) >= st.position_close_time) =>
        /\ \A k \in PricedInLastStep : k \notin DOMAIN bt.positions
        /\ \A k \in PricedInLastStep :
              generate_signals(st, k, RowsUntil(st_call.args[1][k], LastStep), <<>>).ret = <<>>
        /\ \A i \in 1..Len(bt.trades) :
              bt.trades[i].exit_time = LastStep =>
                  bt.trades[i].exit_reason \in {"Stop Loss", "Take Profit", "Time Stop"}

\* a step at or after 15:55 has closed AAPL, which had a price, by the time
\* stop, and has left MSFT, which had none, open
C38_Witness ==
    /\ bt.equity_curve # <<>>
    /\ EasternTime(LastStep) >= st.position_close_time
    /\ PricedInLastStep = {"AAPL"}
    /\ DOMAIN bt.positions = {"MSFT"}
    /\ \E i \in 1..Len(bt.trades) :
          /\ bt.trades[i].ticker = "AAPL"
          /\ bt.trades[i].exit_time = LastStep
          /\ bt.trades[i].exit_reason = "Time Stop"

---------------------------------------------------------------------------
(* BacktestEngine.reset *)

reset_keeps_peak(b) ==
    [b EXCEPT !.capital = b.config.starting_capital,
              !.starting_capital = b.config.starting_capital,
              !.positions = NoPositions,
              !.trades = <<>>,
              !.equity_curve = <<>>,
              !.daily_pnl = 0,
              !.current_drawdown = FracZero,
              !.total_trades = 0,
              !.winning_trades = 0,
              !.losing_trades = 0]

reset(b) ==
    [b EXCEPT !.capital = b.config.starting_capital,
              !.starting_capital = b.config.starting_capital,
              !.positions = NoPositions,
              !.trades = <<>>,
              !.equity_curve = <<>>,
              !.daily_pnl = 0,
              !.peak_equity = b.config.starting_capital,
              !.current_drawdown = FracZero,
              !.total_trades = 0,
              !.winning_trades = 0,
              !.losing_trades = 0]

\* reset(), called while fewer than MaxResetOpens positions were ever opened.
\* The history starts again with the engine, but for its count of opens.
MaxResetOpens == 2
Reset ==
    /\ bt_obs.opened < MaxResetOpens
    /\ bt' = reset(bt)
    /\ bt_call' = [NoBtCall EXCEPT !.op = "reset"]
    /\ bt_obs' = [BtObsInit(bt.config) EXCEPT !.opened = bt_obs.opened]
    /\ UNCHANGED <<rm_vars, st_vars>>

\* the ledger's operations, entries at 100 dollars only, and reset()
ResetStep ==
    \/ \E ticker \in LedgerTickers :
          OpenPosition(ticker, 1, Dollars(100), 6, Dollars(90), Dollars(110))
    \/ \E ticker \in LedgerTickers, price \in LedgerPrices :
          ClosePosition(ticker, 2, price, "Take Profit")
    \/ UpdatePositions([k \in LedgerTickers |-> Dollars(200)], 3)
    \/ \E prices \in LedgerSnapshots :
          RecordEquity(3, prices)
    \/ Reset

SpecReset == InitLedger /\ [][ResetStep]_vars

(* C39: reset() returns the engine to its initial state after any         *)
(* sequence of operations: cash is the starting capital, there are no     *)
(* open positions, the trade list and the equity curve are empty, daily   *)
(* P&L is 0, peak equity is the starting capital, drawdown is 0 and all   *)
(* counters are 0, so that operations replayed after reset() give the     *)
(* results and states they give on a freshly constructed engine with the  *)
(* same config; reset() is idempotent.                                    *)
C39_ResetRestoresInitialState ==
    /\ [][ bt_call'.op = "reset" =>
              /\ bt'.config = bt.config
              /\ bt'.capital = bt.config.starting_capital
              /\ bt'.starting_capital = bt.config.starting_capital
              /\ DOMAIN bt'.positions = {}
              /\ bt'.trades = <<>> /\ bt'.equity_curve = <<>>
              /\ bt'.daily_pnl = 0
              /\ bt'.peak_equity = bt.config.starting_capital
              /\ bt'.current_drawdown = FracZero
              /\ bt'.total_trades = 0 /\ bt'.winning_trades = 0 /\ bt'.losing_trades = 0
              /\ bt' = BacktestEngineInit(bt.config)
          ]_vars
    /\ [](/\ reset(bt) = BacktestEngineInit(bt.config)
          /\ reset(reset(bt)) = reset(bt)
          /\ \A a \in LedgerRequests :
                LET fresh == BacktestEngineInit(bt.config)
                    opened == open_position(reset(bt), a.ticker, 1, a.price, a.quantity,
                                            Dollars(90), Dollars(110))
                    again == open_position(fresh, a.ticker, 1, a.price, a.quantity,
                                           Dollars(90), Dollars(110))
                IN  /\ opened = again
                    /\ \A price \in LedgerPrices :
                          close_position(opened.state, a.ticker, 2, price, "Take Profit")
                              = close_position(again.state, a.ticker, 2, price, "Take Profit"))

\* reset() has just returned on an engine that had opened positions
C39_Witness ==
    /\ bt_call.op = "reset"
    /\ bt_obs.opened > 0
    /\ bt = BacktestEngineInit(bt.config)

=============================================================================
